---- MODULE Spec2Model ----
(***************************************************************************)
(* Tag generator: sampling-grid parser (src/src/logic/parser.py),          *)
(* exceedance engine (src/src/logic/customization_service.py) and the      *)
(* upload flow that ties them to one session                               *)
(* (src/src/ui/components/file_upload.py).                                 *)
(*                                                                         *)
(* Text is modelled as a sequence of one-character strings, so that the    *)
(* string operations of the source (strip, endswith, float) are computed   *)
(* character by character.  A missing cell (pandas NaN) is the empty       *)
(* sequence: the reader never yields an empty string, '' being one of its  *)
(* na_values.  A float is an exact decimal num / den, an infinity or nan.   *)
(***************************************************************************)
EXTENDS Integers, Sequences, FiniteSets, TLC

VARIABLES
    parser,              \* the ExcelParser object of the last load
    exceedance_configs,  \* CustomizationSettings.exceedance_configs, in insertion order
    settings,            \* the other fields of CustomizationSettings that tags read
    session,             \* st.session_state of the upload flow
    op,                  \* name of the last operation called
    args,                \* its arguments
    ret,                 \* its return value
    locals               \* local variables of the call that the properties read

vars == <<parser, exceedance_configs, settings, session, op, args, ret, locals>>

(***************************************************************************)
(* Text                                                                    *)
(***************************************************************************)
NaN == <<>>

NotNa(cell) == cell # NaN

Digits == {"0", "1", "2", "3", "4", "5", "6", "7", "8", "9"}

DigitVal(c) ==
    CASE c = "0" -> 0 [] c = "1" -> 1 [] c = "2" -> 2 [] c = "3" -> 3
      [] c = "4" -> 4 [] c = "5" -> 5 [] c = "6" -> 6 [] c = "7" -> 7
      [] c = "8" -> 8 [] c = "9" -> 9

IsSpace(c) == c = " "

RECURSIVE LStrip(_)
LStrip(s) ==
    IF s # <<>> /\ IsSpace(Head(s)) THEN LStrip(Tail(s)) ELSE s

RECURSIVE RStrip(_)
RStrip(s) ==
    IF s # <<>> /\ IsSpace(s[Len(s)]) THEN RStrip(SubSeq(s, 1, Len(s) - 1)) ELSE s

\* str.strip()
Strip(s) == RStrip(LStrip(s))

\* str.endswith(c) for a one-character c
EndsWith(s, c) == s # <<>> /\ s[Len(s)] = c

\* str.startswith(c) for a one-character c
StartsWith(s, c) == s # <<>> /\ s[1] = c

\* s[:-1]
DropLast(s) == IF s = <<>> THEN <<>> ELSE SubSeq(s, 1, Len(s) - 1)

\* the characters of the model in code-point order
Ascii ==
    <<" ", "+", "-", ".", "0", "1", "2", "3", "4", "5", "6", "7", "8", "9", ":", "<",
      "A", "B", "C", "D", "E", "F", "G", "H", "I", "J", "K", "L", "M", "N", "O", "P",
      "Q", "R", "S", "T", "U", "V", "W", "X", "Y", "Z", "_",
      "a", "b", "c", "d", "e", "f", "g", "h", "i", "j", "k", "l", "m", "n", "o", "p",
      "q", "r", "s", "t", "u", "v", "w", "x", "y", "z">>

CharOrd(c) == CHOOSE i \in 1..Len(Ascii) : Ascii[i] = c

\* a < b on str
RECURSIVE StrLess(_, _)
StrLess(a, b) ==
    IF a = <<>> THEN b # <<>>
    ELSE IF b = <<>> THEN FALSE
    ELSE IF Head(a) = Head(b) THEN StrLess(Tail(a), Tail(b))
    ELSE CharOrd(Head(a)) < CharOrd(Head(b))

\* sorted(list(S)) for a set of str
RECURSIVE SortedStrings(_)
SortedStrings(S) ==
    IF S = {} THEN <<>>
    ELSE LET m == CHOOSE x \in S : \A y \in S \ {x} : StrLess(x, y)
         IN  <<m>> \o SortedStrings(S \ {m})

\* str.upper() of one character
UpperChar(c) ==
    IF CharOrd(c) >= CharOrd("a") /\ CharOrd(c) <= CharOrd("z")
    THEN Ascii[CharOrd(c) - CharOrd("a") + CharOrd("A")]
    ELSE c

Upper(s) == [i \in 1..Len(s) |-> UpperChar(s[i])]

\* str.find(sub), 0-based, -1 when absent
Find(s, sub) ==
    LET hits == {i \in 0..(Len(s) - Len(sub)) : SubSeq(s, i + 1, i + Len(sub)) = sub}
    IN  IF hits = {} THEN 0 - 1 ELSE CHOOSE i \in hits : \A j \in hits : i <= j

\* str.strip('-')
RECURSIVE StripHyphens(_)
StripHyphens(s) ==
    IF s # <<>> /\ Head(s) = "-" THEN StripHyphens(Tail(s))
    ELSE IF s # <<>> /\ s[Len(s)] = "-" THEN StripHyphens(SubSeq(s, 1, Len(s) - 1))
    ELSE s

\* str.split('-')
RECURSIVE SplitHyphen(_)
SplitHyphen(s) ==
    LET i == Find(s, <<"-">>)
    IN  IF i = 0 - 1 THEN <<s>>
        ELSE <<SubSeq(s, 1, i)>> \o SplitHyphen(SubSeq(s, i + 2, Len(s)))

\* '-'.join(parts)
RECURSIVE JoinHyphen(_)
JoinHyphen(parts) ==
    IF parts = <<>> THEN <<>>
    ELSE IF Len(parts) = 1 THEN parts[1]
    ELSE parts[1] \o <<"-">> \o JoinHyphen(Tail(parts))

(***************************************************************************)
(* float(text): optional surrounding blanks, an optional sign, then "inf", *)
(* "infinity" or "nan" in any case, or digits with at most one point, at   *)
(* least one digit and an optional exponent.  ok = FALSE is ValueError.    *)
(* A finite value is the exact decimal num / den; the texts of the model   *)
(* are short enough that no two of them round to the same double, and none *)
(* uses the digit separator "_".                                           *)
(***************************************************************************)
RECURSIVE Pow10(_)
Pow10(n) == IF n = 0 THEN 1 ELSE 10 * Pow10(n - 1)

RECURSIVE DigitsValue(_)
DigitsValue(s) ==
    IF s = <<>> THEN 0 ELSE 10 * DigitsValue(DropLast(s)) + DigitVal(s[Len(s)])

AllDigits(s) == \A i \in 1..Len(s) : s[i] \in Digits

NoFloat == [ok |-> FALSE, nan |-> FALSE, inf |-> 0, num |-> 0, den |-> 1]

Finite(num, den) == [ok |-> TRUE, nan |-> FALSE, inf |-> 0, num |-> num, den |-> den]

\* float('inf') for sign = 1, float('-inf') for sign = -1
Infinity(sign) == [ok |-> TRUE, nan |-> FALSE, inf |-> sign, num |-> 0, den |-> 1]

NotANumber == [ok |-> TRUE, nan |-> TRUE, inf |-> 0, num |-> 0, den |-> 1]

\* digits with at most one point
Decimal(s) ==
    LET points == {i \in 1..Len(s) : s[i] = "."}
    IN  IF points = {}
        THEN IF s # <<>> /\ AllDigits(s) THEN Finite(DigitsValue(s), 1) ELSE NoFloat
        ELSE IF Cardinality(points) > 1
        THEN NoFloat
        ELSE LET p == CHOOSE i \in points : TRUE
                 whole == SubSeq(s, 1, p - 1)
                 frac == SubSeq(s, p + 1, Len(s))
             IN  IF AllDigits(whole) /\ AllDigits(frac) /\ Len(whole) + Len(frac) > 0
                 THEN Finite(DigitsValue(whole) * Pow10(Len(frac)) + DigitsValue(frac),
                             Pow10(Len(frac)))
                 ELSE NoFloat

\* the text after "e": an optional sign and at least one digit
Exponent(s) ==
    LET signed == s # <<>> /\ Head(s) \in {"+", "-"}
        digits == IF signed THEN Tail(s) ELSE s
    IN  IF digits # <<>> /\ AllDigits(digits)
        THEN [ok |-> TRUE,
              exp |-> IF signed /\ Head(s) = "-" THEN 0 - DigitsValue(digits)
                      ELSE DigitsValue(digits)]
        ELSE [ok |-> FALSE, exp |-> 0]

Scale(x, exp) ==
    IF exp >= 0 THEN Finite(x.num * Pow10(exp), x.den) ELSE Finite(x.num, x.den * Pow10(0 - exp))

UnsignedFloat(s) ==
    LET es == {i \in 1..Len(s) : s[i] \in {"e", "E"}}
    IN  IF Upper(s) \in {<<"I", "N", "F">>, <<"I", "N", "F", "I", "N", "I", "T", "Y">>}
        THEN Infinity(1)
        ELSE IF Upper(s) = <<"N", "A", "N">>
        THEN NotANumber
        ELSE IF es = {}
        THEN Decimal(s)
        ELSE IF Cardinality(es) > 1
        THEN NoFloat
        ELSE LET p == CHOOSE i \in es : TRUE
                 mantissa == Decimal(SubSeq(s, 1, p - 1))
                 exponent == Exponent(SubSeq(s, p + 1, Len(s)))
             IN  IF mantissa.ok /\ exponent.ok THEN Scale(mantissa, exponent.exp) ELSE NoFloat

Negate(x) == [x EXCEPT !.inf = 0 - @, !.num = 0 - @]

ParseFloat(s) ==
    LET t == Strip(s)
    IN  IF t = <<>> THEN NoFloat
        ELSE IF Head(t) = "-" THEN Negate(UnsignedFloat(Tail(t)))
        ELSE IF Head(t) = "+" THEN UnsignedFloat(Tail(t))
        ELSE UnsignedFloat(t)

\* x > y on floats: never with nan on either side
NumGreater(x, y) ==
    /\ ~x.nan /\ ~y.nan
    /\ IF x.inf = 0 /\ y.inf = 0 THEN x.num * y.den > y.num * x.den ELSE x.inf > y.inf

\* x == y on floats
NumEqual(x, y) ==
    /\ ~x.nan /\ ~y.nan
    /\ IF x.inf = 0 /\ y.inf = 0 THEN x.num * y.den = y.num * x.den ELSE x.inf = y.inf

(***************************************************************************)
(* ExcelParser._resolve_duplicate_values                                   *)
(***************************************************************************)
qualifiers == <<"J", "U", "E", "N", "T", "B", "R", "L">>

\* for qualifier in qualifiers: if numeric_part.endswith(qualifier): numeric_part = numeric_part[:-1]
RECURSIVE RemoveQualifiers(_, _)
RemoveQualifiers(numeric_part, i) ==
    IF i > Len(qualifiers) THEN numeric_part
    ELSE RemoveQualifiers(IF EndsWith(numeric_part, qualifiers[i])
                          THEN DropLast(numeric_part)
                          ELSE numeric_part, i + 1)

\* the text handed to float() for one value
NumericPart(value) == RemoveQualifiers(Strip(value), 1)

\* numeric_value of a value: float(numeric_part), or float('-inf') on ValueError
RankOf(value) ==
    LET numeric_value == ParseFloat(NumericPart(value))
    IN  IF numeric_value.ok THEN numeric_value ELSE Infinity(0 - 1)

\* max() replaces the best entry by a later one on a > b only
RankGreater(a, b) == NumGreater(a, b)

\* max(numeric_values, key=lambda x: x[0]): the first entry of greatest key
RECURSIVE MaxByRank(_, _, _)
MaxByRank(values, i, best) ==
    IF i > Len(values) THEN best
    ELSE MaxByRank(values, i + 1,
                   IF RankGreater(RankOf(values[i]), RankOf(values[best])) THEN i ELSE best)

ResolveDuplicateValues(values) ==
    IF values = <<>> THEN <<>>
    ELSE IF Len(values) = 1 THEN values[1]
    ELSE values[MaxByRank(values, 2, 1)]

\* numeric_part of every value, as the loop of the multi-element branch computes it
NumericParts(values) ==
    IF Len(values) < 2 THEN <<>>
    ELSE [i \in 1..Len(values) |-> NumericPart(values[i])]

(***************************************************************************)
(* The raw grid (ExcelParser.data): a sequence of rows of equal length,    *)
(* addressed from 0 as DataFrame.iloc does.                                *)
(***************************************************************************)
NRows(data) == Len(data)

NCols(data) == IF data = <<>> THEN 0 ELSE Len(data[1])

At(data, row, col) == data[row + 1][col + 1]

\* None of an Optional[str]; the source tests depth by truthiness, so
\* None and '' are one value here
None == <<>>

\* the date of row 3: non-date cells are stringified as they are
DateStr(cell) == cell

(***************************************************************************)
(* _get_depth_sort_key                                                     *)
(***************************************************************************)
\* the longest prefix of digits
RECURSIVE DigitPrefix(_)
DigitPrefix(s) ==
    IF s # <<>> /\ Head(s) \in Digits THEN <<Head(s)>> \o DigitPrefix(Tail(s)) ELSE <<>>

\* re.match(r'^(\d+\.?\d*)', text): the matched text, <<>> when there is no match
DepthNumberMatch(text) ==
    LET whole == DigitPrefix(text)
        rest == SubSeq(text, Len(whole) + 1, Len(text))
    IN  IF whole = <<>> THEN <<>>
        ELSE IF rest # <<>> /\ Head(rest) = "."
        THEN whole \o <<".">> \o DigitPrefix(Tail(rest))
        ELSE whole

\* (numeric_start_value, depth); inf = TRUE is float('inf')
GetDepthSortKey(depth) ==
    LET m == DepthNumberMatch(Strip(depth))
    IN  IF depth = <<>> \/ m = <<>>
        THEN [inf |-> TRUE, value |-> NoFloat, depth |-> depth]
        ELSE [inf |-> FALSE, value |-> ParseFloat(m), depth |-> depth]

\* k1 < k2 on the tuples (numeric_start_value, depth)
DepthKeyLess(k1, k2) ==
    IF k1.inf /\ k2.inf THEN StrLess(k1.depth, k2.depth)
    ELSE IF k1.inf THEN FALSE
    ELSE IF k2.inf THEN TRUE
    ELSE IF NumEqual(k1.value, k2.value) THEN StrLess(k1.depth, k2.depth)
    ELSE NumGreater(k2.value, k1.value)

\* a comparison of (date, depth) pairs by their text alone
DateDepthTextLess(x, y) ==
    IF x[1] = y[1] THEN StrLess(x[2], y[2]) ELSE StrLess(x[1], y[1])

\* x < y on the sort key (x[0], _get_depth_sort_key(x[1])) of a (date, depth) pair
DateDepthLess(x, y) ==
    IF x[1] = y[1]
    THEN DepthKeyLess(GetDepthSortKey(x[2]), GetDepthSortKey(y[2]))
    ELSE StrLess(x[1], y[1])

\* sorted(list(S), key=...) for a set of (date, depth) pairs
RECURSIVE SortedDateDepth(_)
SortedDateDepth(S) ==
    IF S = {} THEN <<>>
    ELSE LET m == CHOOSE x \in S : \A y \in S \ {x} : DateDepthLess(x, y)
         IN  <<m>> \o SortedDateDepth(S \ {m})

(***************************************************************************)
(* _normalize_location_id_for_matching, _extract_depth_from_sample_name    *)
(***************************************************************************)
\* str(int(num_str)) for a run of digits
RECURSIVE RemoveLeadingZeros(_)
RemoveLeadingZeros(num_str) ==
    IF Len(num_str) > 1 /\ Head(num_str) = "0"
    THEN RemoveLeadingZeros(Tail(num_str))
    ELSE num_str

\* re.sub(r'\d+', remove_leading_zeros, location_id)
RECURSIVE NormalizeLocationIdForMatching(_)
NormalizeLocationIdForMatching(location_id) ==
    IF location_id = <<>> THEN <<>>
    ELSE IF Head(location_id) \in Digits
    THEN LET run == DigitPrefix(location_id)
         IN  RemoveLeadingZeros(run)
             \o NormalizeLocationIdForMatching(
                    SubSeq(location_id, Len(run) + 1, Len(location_id)))
    ELSE <<Head(location_id)>> \o NormalizeLocationIdForMatching(Tail(location_id))

\* a part kept as it is, ".0" included
KeepPointZero(part) == part

\* part[:-2] when part ends with ".0"
TrimPointZero(part) ==
    IF Len(part) >= 2 /\ SubSeq(part, Len(part) - 1, Len(part)) = <<".", "0">>
    THEN SubSeq(part, 1, Len(part) - 2)
    ELSE part

ExtractDepthFromSampleName(sample_name, location_id) ==
    IF sample_name = <<>> \/ location_id = <<>> THEN None
    ELSE
    LET exact == Find(sample_name, location_id)
        normalized_location_id == NormalizeLocationIdForMatching(location_id)
        location_idx ==
            IF exact # 0 - 1 THEN exact ELSE Find(sample_name, normalized_location_id)
        matched_location_id ==
            IF exact # 0 - 1 THEN location_id ELSE normalized_location_id
    IN  IF location_idx = 0 - 1 THEN None
        ELSE
        LET after_location ==
                Strip(StripHyphens(SubSeq(sample_name,
                                          location_idx + Len(matched_location_id) + 1,
                                          Len(sample_name))))
        IN  IF after_location = <<>> THEN None
            ELSE IF Find(after_location, <<"-">>) # 0 - 1
            THEN LET parts == SplitHyphen(after_location)
                 IN  JoinHyphen([i \in 1..Len(parts) |-> TrimPointZero(Strip(parts[i]))])
            ELSE TrimPointZero(after_location)

\* the three "return None" of _extract_depth_from_sample_name
ExtractDepthReturnsNone(sample_name, location_id) ==
    \/ sample_name = <<>>
    \/ location_id = <<>>
    \/ LET exact == Find(sample_name, location_id)
           normalized_location_id == NormalizeLocationIdForMatching(location_id)
           location_idx ==
               IF exact # 0 - 1 THEN exact ELSE Find(sample_name, normalized_location_id)
           matched_location_id ==
               IF exact # 0 - 1 THEN location_id ELSE normalized_location_id
       IN  \/ location_idx = 0 - 1
           \/ Strip(StripHyphens(SubSeq(sample_name,
                  location_idx + Len(matched_location_id) + 1, Len(sample_name)))) = <<>>

(***************************************************************************)
(* ExcelParser                                                             *)
(***************************************************************************)
SampleNameRow == 1

DateRow == 3

AnalyteHeaderRow == 4

FirstAnalyteRow == 5

StandardsCheckEndRow == 20

DefaultFirstLocationCol == 3

\* first_location_col before the first load (None)
NoCol == 0 - 1

\* an empty dict
EmptyDict == <<>>

\* d[k] = v
Put(d, k, v) == [x \in (DOMAIN d) \cup {k} |-> IF x = k THEN v ELSE d[x]]

\* ExcelParser.__init__
NewParser ==
    [data |-> <<>>,
     locations |-> <<>>,
     categories |-> <<>>,
     analytes |-> <<>>,
     location_dates |-> EmptyDict,
     analyte_thresholds |-> EmptyDict,
     result_data |-> EmptyDict,
     first_location_col |-> NoCol,
     has_sample_depth |-> FALSE,
     column_metadata |-> EmptyDict,
     date_depth_combinations |-> EmptyDict,
     analyte_standards |-> EmptyDict,
     standards_columns |-> <<>>,
     standards_column_indices |-> EmptyDict]

skip_values ==
    {<<"A", "W", "Q", "S">>,
     <<"A", "n", "a", "l", "y", "t", "e">>,
     <<"T", "h", "r", "e", "s", "h", "o", "l", "d">>,
     <<"S", "a", "m", "p", "l", "e", " ", "N", "a", "m", "e">>,
     <<"L", "o", "c", "a", "t", "i", "o", "n", " ", "I", "D">>,
     <<"L", "o", "c", "a", "t", "i", "o", "n", " ", "N", "a", "m", "e">>,
     <<"D", "a", "t", "e">>,
     <<"S", "a", "m", "p", "l", "e", " ", "D", "a", "t", "e">>,
     <<"P", "a", "r", "e", "n", "t", " ", "S", "a", "m", "p", "l", "e", " ", "N", "a", "m", "e">>}

\* a cell that is present and not blank
HasText(cell) == NotNa(cell) /\ Strip(cell) # <<>>

\* the first column with a location in row 0, whatever row 3 holds
FirstUnskippedColumn(data) ==
    LET found == {col_idx \in 0..(NCols(data) - 1) :
                    /\ NotNa(At(data, 0, col_idx))
                    /\ Upper(Strip(At(data, 0, col_idx))) \notin {Upper(v) : v \in skip_values}
                    /\ Strip(At(data, 0, col_idx)) # <<>>}
    IN  IF found = {} THEN DefaultFirstLocationCol
        ELSE CHOOSE c \in found : \A d \in found : c <= d

FindFirstLocationColumn(data) ==
    LET found == {col_idx \in 0..(NCols(data) - 1) :
                    /\ NotNa(At(data, 0, col_idx))
                    /\ Upper(Strip(At(data, 0, col_idx))) \notin {Upper(v) : v \in skip_values}
                    /\ Strip(At(data, 0, col_idx)) # <<>>
                    /\ NRows(data) > DateRow
                    /\ NotNa(At(data, DateRow, col_idx))}
    IN  IF found = {} THEN DefaultFirstLocationCol
        ELSE CHOOSE c \in found : \A d \in found : c <= d

\* the columns from first_location_col on whose row-0 cell names a location
LocationCols(p) ==
    {col_idx \in p.first_location_col..(NCols(p.data) - 1) : HasText(At(p.data, 0, col_idx))}

LocationId(p, col_idx) == Strip(At(p.data, 0, col_idx))

\* data.iloc[3, col_idx] of a grid of fewer than four rows raises IndexError
ParseLocationsAndDatesRaises(p) == NRows(p.data) <= DateRow /\ LocationCols(p) # {}

\* the location columns that carry a date
DatedCols(p) == {col_idx \in LocationCols(p) : NotNa(At(p.data, DateRow, col_idx))}

\* the depth _parse_locations_and_dates extracts for a dated column
ColumnDepth(p, col_idx) ==
    IF /\ p.has_sample_depth
       /\ NRows(p.data) > SampleNameRow
       /\ NotNa(At(p.data, SampleNameRow, col_idx))
    THEN ExtractDepthFromSampleName(Strip(At(p.data, SampleNameRow, col_idx)),
                                    LocationId(p, col_idx))
    ELSE None

ColumnTriple(p, col_idx) ==
    <<LocationId(p, col_idx), DateStr(At(p.data, DateRow, col_idx)), ColumnDepth(p, col_idx)>>

\* self.column_metadata[key] = col_idx, column after column: the last column
\* of a (location, date, depth) triple is the one that stays
ColumnMetadata(p) ==
    LET cols == {c \in DatedCols(p) : ColumnDepth(p, c) # None}
    IN  [key \in {ColumnTriple(p, c) : c \in cols} |->
            CHOOSE c \in cols :
                /\ ColumnTriple(p, c) = key
                /\ \A d \in cols : ColumnTriple(p, d) = key => d <= c]

ParseLocationsAndDates(p) ==
    IF ParseLocationsAndDatesRaises(p)
    THEN [p EXCEPT !.locations = <<>>, !.location_dates = EmptyDict,
                   !.column_metadata = EmptyDict, !.date_depth_combinations = EmptyDict]
    ELSE
    LET unique_locations == {LocationId(p, c) : c \in LocationCols(p)}
        dates(loc) == {DateStr(At(p.data, DateRow, c)) :
                          c \in {d \in DatedCols(p) : LocationId(p, d) = loc}}
        column_metadata == ColumnMetadata(p)
        depth_pairs(loc) == {<<k[2], k[3]>> : k \in {t \in DOMAIN column_metadata : t[1] = loc}}
    IN  [p EXCEPT !.locations = SortedStrings(unique_locations),
                  !.location_dates = [loc \in unique_locations |-> SortedStrings(dates(loc))],
                  !.column_metadata = column_metadata,
                  !.date_depth_combinations =
                      IF p.has_sample_depth
                      THEN [loc \in {l \in unique_locations : depth_pairs(l) # {}} |->
                               SortedDateDepth(depth_pairs(loc))]
                      ELSE EmptyDict]

(***************************************************************************)
(* _detect_standards_columns                                               *)
(***************************************************************************)
DigitChar(d) == Ascii[CharOrd("0") + d]

\* str(n) for n >= 0
RECURSIVE IntToStr(_)
IntToStr(n) == IF n < 10 THEN <<DigitChar(n)>> ELSE IntToStr(n \div 10) \o <<DigitChar(n % 10)>>

\* "Analyte" in str(cell)
ContainsAnalyte(cell) == Find(cell, <<"A", "n", "a", "l", "y", "t", "e">>) # 0 - 1

HeaderRowIdx(data) ==
    IF NRows(data) > AnalyteHeaderRow
    THEN IF NotNa(At(data, AnalyteHeaderRow, 0)) /\ ContainsAnalyte(At(data, AnalyteHeaderRow, 0))
         THEN AnalyteHeaderRow
         ELSE 0
    ELSE AnalyteHeaderRow

StandardsColName(data, col_idx) ==
    LET header_row_idx == HeaderRowIdx(data)
        header_value == IF NRows(data) > header_row_idx
                        THEN At(data, header_row_idx, col_idx)
                        ELSE NaN
    IN  IF HasText(header_value)
        THEN Strip(header_value)
        ELSE <<"S", "t", "a", "n", "d", "a", "r", "d", " ">> \o IntToStr(col_idx)

\* every row from row 5 on is searched for a number
AllAnalyteRows(data) == FirstAnalyteRow..(NRows(data) - 1)

\* the rows range(5, min(len(data), 20)) that are searched for a number
StandardsCheckRows(data) ==
    LET last == IF NRows(data) < StandardsCheckEndRow THEN NRows(data) ELSE StandardsCheckEndRow
    IN  FirstAnalyteRow..(last - 1)

HasNumericValues(data, col_idx) ==
    /\ NRows(data) > FirstAnalyteRow
    /\ \E check_row \in StandardsCheckRows(data) :
          /\ NotNa(At(data, check_row, col_idx))
          /\ ParseFloat(At(data, check_row, col_idx)).ok

\* a header cell right of the last column is read only when the grid has
\* the header row: data.iloc[header_row_idx, col_idx] raises IndexError
DetectStandardsColumnsRaises(p) ==
    NRows(p.data) > AnalyteHeaderRow /\ p.first_location_col > NCols(p.data)

\* columns 1 .. first_location_col - 1, left to right, up to the column that raises
RECURSIVE DetectFrom(_, _, _)
DetectFrom(p, col_idx, last) ==
    IF col_idx > last THEN p
    ELSE DetectFrom(
            IF HasNumericValues(p.data, col_idx)
            THEN [p EXCEPT !.standards_columns = Append(@, StandardsColName(p.data, col_idx)),
                           !.standards_column_indices =
                               Put(@, StandardsColName(p.data, col_idx), col_idx)]
            ELSE p,
            col_idx + 1, last)

DetectStandardsColumns(p) ==
    LET last == IF p.first_location_col > NCols(p.data) /\ NRows(p.data) > AnalyteHeaderRow
                THEN NCols(p.data) - 1
                ELSE p.first_location_col - 1
    IN  DetectFrom([p EXCEPT !.standards_columns = <<>>,
                             !.standards_column_indices = EmptyDict],
                   1, last)

(***************************************************************************)
(* _store_analyte_results                                                  *)
(***************************************************************************)
\* the depth found in column_metadata for (location_id, date_str, col_idx)
StoredDepth(p, location_id, date_str, col_idx) ==
    LET hits == {k \in DOMAIN p.column_metadata :
                    k[1] = location_id /\ k[2] = date_str /\ p.column_metadata[k] = col_idx}
    IN  IF p.has_sample_depth /\ hits # {}
        THEN (CHOOSE k \in hits : TRUE)[3]
        ELSE None

ResultKey(p, location_id, date_str, depth, analyte_name) ==
    IF p.has_sample_depth /\ depth # None
    THEN <<location_id, date_str, depth, analyte_name>>
    ELSE <<location_id, date_str, analyte_name>>

\* self.result_data[key].append(result_str)
AppendResult(result_data, key, result_str) ==
    Put(result_data, key,
        IF key \in DOMAIN result_data THEN Append(result_data[key], result_str)
        ELSE <<result_str>>)

RECURSIVE StoreFrom(_, _, _, _)
StoreFrom(p, row_idx, analyte_name, col_idx) ==
    IF col_idx > NCols(p.data) - 1 THEN p
    ELSE StoreFrom(
            IF /\ HasText(At(p.data, 0, col_idx))
               /\ NotNa(At(p.data, DateRow, col_idx))
               /\ NotNa(At(p.data, row_idx, col_idx))
            THEN LET location_id == LocationId(p, col_idx)
                     date_str == DateStr(At(p.data, DateRow, col_idx))
                     depth == StoredDepth(p, location_id, date_str, col_idx)
                 IN  [p EXCEPT !.result_data =
                         AppendResult(@, ResultKey(p, location_id, date_str, depth, analyte_name),
                                      Strip(At(p.data, row_idx, col_idx)))]
            ELSE p,
            row_idx, analyte_name, col_idx + 1)

StoreAnalyteResults(p, row_idx, analyte_name) ==
    StoreFrom(p, row_idx, analyte_name, p.first_location_col)

(***************************************************************************)
(* _parse_categories_and_analytes                                          *)
(***************************************************************************)
IsNotesRow(data, row_idx) ==
    /\ NotNa(At(data, row_idx, 0))
    /\ Strip(At(data, row_idx, 0)) = <<"N", "o", "t", "e", "s", ":">>

\* no row with the name of this row has content in another column
NameHasNoValues(data, row_idx) ==
    \A q \in 0..(NRows(data) - 1) :
        (NotNa(At(data, q, 0)) /\ Strip(At(data, q, 0)) = Strip(At(data, row_idx, 0))) =>
            \A col_idx \in 1..(NCols(data) - 1) : ~HasText(At(data, q, col_idx))

OtherColsEmpty(data, row_idx) ==
    \A col_idx \in 1..(NCols(data) - 1) : ~HasText(At(data, row_idx, col_idx))

\* float(standards_value) of the analyte's cell in a standards column, NoFloat for None
StandardsCell(p, row_idx, standards_col_name) ==
    LET cell == At(p.data, row_idx, p.standards_column_indices[standards_col_name])
    IN  IF NotNa(cell) THEN ParseFloat(cell) ELSE NoFloat

\* the first standards column with a value
Threshold(p, row_idx) ==
    LET with_value == {i \in 1..Len(p.standards_columns) :
                          StandardsCell(p, row_idx, p.standards_columns[i]).ok}
    IN  IF with_value = {} THEN NoFloat
        ELSE StandardsCell(p, row_idx,
                 p.standards_columns[CHOOSE i \in with_value : \A j \in with_value : i <= j])

AnalyteRow(p, row_idx) ==
    LET analyte_name == Strip(At(p.data, row_idx, 0))
        current_category == p.categories[Len(p.categories)].name
        analyte_data == [name |-> analyte_name, category |-> current_category,
                         threshold |-> Threshold(p, row_idx)]
        names == {p.standards_columns[i] : i \in 1..Len(p.standards_columns)}
    IN  StoreAnalyteResults(
            [p EXCEPT !.analyte_standards =
                          Put(@, analyte_name,
                              [n \in names |-> StandardsCell(p, row_idx, n)]),
                      !.analytes = Append(@, analyte_data),
                      !.analyte_thresholds = Put(@, analyte_name, analyte_data.threshold),
                      !.categories[Len(p.categories)].analytes = Append(@, analyte_data)],
            row_idx, analyte_name)

RECURSIVE ParseRowsFrom(_, _)
ParseRowsFrom(p, row_idx) ==
    IF row_idx >= NRows(p.data) \/ IsNotesRow(p.data, row_idx) THEN p
    ELSE ParseRowsFrom(
            IF HasText(At(p.data, row_idx, 0))
            THEN IF OtherColsEmpty(p.data, row_idx)
                 THEN [p EXCEPT !.categories =
                          Append(@, [name |-> Strip(At(p.data, row_idx, 0)),
                                     analytes |-> <<>>])]
                 ELSE IF p.categories # <<>> THEN AnalyteRow(p, row_idx) ELSE p
            ELSE p,
            row_idx + 1)

ParseCategoriesAndAnalytes(p) ==
    LET cleared == [p EXCEPT !.categories = <<>>, !.analytes = <<>>,
                             !.analyte_thresholds = EmptyDict,
                             !.analyte_standards = EmptyDict]
        detected == DetectStandardsColumns(cleared)
    IN  IF DetectStandardsColumnsRaises(cleared) THEN detected
        ELSE ParseRowsFrom(detected, FirstAnalyteRow)

(***************************************************************************)
(* load_file: ok is the value returned; a file no reader accepts is        *)
(* Unreadable and leaves the object as it was.                             *)
(***************************************************************************)
Unreadable == <<<<<<"?">>>>>>

LoadFileRaises(p, file) ==
    \/ file = Unreadable
    \/ LET q == [p EXCEPT !.data = file,
                          !.first_location_col = FindFirstLocationColumn(file)]
       IN  ParseLocationsAndDatesRaises(q) \/ DetectStandardsColumnsRaises(q)

LoadFile(p, file) ==
    IF file = Unreadable THEN p
    ELSE LET q == [p EXCEPT !.data = file,
                            !.first_location_col = FindFirstLocationColumn(file)]
         IN  IF ParseLocationsAndDatesRaises(q) THEN ParseLocationsAndDates(q)
             ELSE ParseCategoriesAndAnalytes(ParseLocationsAndDates(q))

(***************************************************************************)
(* The accessors of ExcelParser                                            *)
(***************************************************************************)
GetLocations(p) == p.locations

GetCategories(p) == p.categories

\* location_dates.get(location_id, [])
GetDatesByLocation(p, location_id) ==
    IF location_id \in DOMAIN p.location_dates THEN p.location_dates[location_id] ELSE <<>>

GetStandardsColumns(p) == p.standards_columns

\* None is NoFloat
GetStandardsValue(p, analyte_name, standards_col_name) ==
    IF analyte_name \in DOMAIN p.analyte_standards
    THEN IF standards_col_name \in DOMAIN p.analyte_standards[analyte_name]
         THEN p.analyte_standards[analyte_name][standards_col_name]
         ELSE NoFloat
    ELSE NoFloat

\* the result of the analyte under any key, whatever its location and date
GetResultValueOfAnalyte(p, location_id, date, analyte, depth) ==
    LET keys == {k \in DOMAIN p.result_data : k[Len(k)] = analyte}
    IN  IF keys # {}
        THEN [found |-> TRUE,
              value |-> ResolveDuplicateValues(
                            p.result_data[CHOOSE k \in keys :
                                \A other \in keys :
                                    Len(k) < Len(other)
                                    \/ (Len(k) = Len(other)
                                        /\ ~StrLess(other[2], k[2]))])]
        ELSE [found |-> FALSE, value |-> <<>>]

\* None (no stored list) is reported by found = FALSE
GetResultValue(p, location_id, date, analyte, depth) ==
    LET key == IF p.has_sample_depth /\ depth # None
               THEN <<location_id, date, depth, analyte>>
               ELSE <<location_id, date, analyte>>
    IN  IF key \in DOMAIN p.result_data
        THEN [found |-> TRUE, value |-> ResolveDuplicateValues(p.result_data[key])]
        ELSE [found |-> FALSE, value |-> <<>>]

\* CustomizationSettings(): the fields that tag generation reads, at their
\* defaults
DefaultSettings ==
    [analyte_mappings |-> <<>>,
     date_format |-> "YYYY-MM-DD",
     date_header_text |-> <<"A", "n", "a", "l", "y", "t", "e">>,
     show_non_detect_as_nd |-> FALSE]

(***************************************************************************)
(* CustomizationSettings.exceedance_configs: a dict in insertion order, as *)
(* a sequence of entries [name, enabled, text_color] with distinct names.  *)
(***************************************************************************)
DefaultTextColor == "#000000"

\* ExceedanceConfig()
DefaultConfig(name) == [name |-> name, enabled |-> TRUE, text_color |-> DefaultTextColor]

ConfigNames(configs) == {configs[i].name : i \in 1..Len(configs)}

ConfigIndex(configs, name) == CHOOSE i \in 1..Len(configs) : configs[i].name = name

\* the settings after get_exceedance_config(name): a default entry is
\* created when the name has none
GetExceedanceConfig(configs, name) ==
    IF name \in ConfigNames(configs) THEN configs ELSE Append(configs, DefaultConfig(name))

\* the entry get_exceedance_config(name) returns
ConfigOf(configs, name) ==
    IF name \in ConfigNames(configs) THEN configs[ConfigIndex(configs, name)]
    ELSE DefaultConfig(name)

\* set_standards_enabled
SetStandardsEnabled(configs, name, enabled) ==
    LET created == GetExceedanceConfig(configs, name)
    IN  [created EXCEPT ![ConfigIndex(created, name)].enabled = enabled]

\* set_standards_text_color
SetStandardsTextColor(configs, name, color) ==
    LET created == GetExceedanceConfig(configs, name)
    IN  [created EXCEPT ![ConfigIndex(created, name)].text_color = color]

\* initialize_exceedance_configs
RECURSIVE InitializeFrom(_, _, _)
InitializeFrom(configs, standards_columns, i) ==
    IF i > Len(standards_columns) THEN configs
    ELSE InitializeFrom(SetStandardsEnabled(configs, standards_columns[i], TRUE),
                        standards_columns, i + 1)

InitializeExceedanceConfigs(configs, p) ==
    InitializeFrom(configs, GetStandardsColumns(p), 1)

(***************************************************************************)
(* CustomizationService.check_exceedance                                   *)
(***************************************************************************)
\* the names of a sequence in alphabetical order
AlphabeticalOrder(names) == SortedStrings({names[i] : i \in 1..Len(names)})

\* the keys of a dict built by inserting the names of a sequence in order
RECURSIVE InsertionOrder(_)
InsertionOrder(names) ==
    IF names = <<>> THEN <<>>
    ELSE LET front == InsertionOrder(DropLast(names))
             last == names[Len(names)]
         IN  IF \E i \in 1..Len(front) : front[i] = last THEN front ELSE Append(front, last)

\* the keys of enabled_configs before the fallback
EnabledNames(configs) ==
    LET idx == {i \in 1..Len(configs) : configs[i].enabled}
        RECURSIVE Pick(_)
        Pick(i) == IF i > Len(configs) THEN <<>>
                   ELSE IF i \in idx THEN <<configs[i].name>> \o Pick(i + 1)
                   ELSE Pick(i + 1)
    IN  Pick(1)

\* whether the call takes the auto-enable branch
AutoEnables(configs, p) == EnabledNames(configs) = <<>> /\ GetStandardsColumns(p) # <<>>

\* the settings after the call: the fallback reads every standards column
\* through get_exceedance_config
RECURSIVE CreateFrom(_, _, _)
CreateFrom(configs, standards_columns, i) ==
    IF i > Len(standards_columns) THEN configs
    ELSE CreateFrom(GetExceedanceConfig(configs, standards_columns[i]),
                    standards_columns, i + 1)

ConfigsAfterCheck(configs, p) ==
    IF AutoEnables(configs, p) THEN CreateFrom(configs, GetStandardsColumns(p), 1)
    ELSE configs

\* the keys of enabled_configs that the comparison loop runs over
CheckedNames(configs, p) ==
    IF AutoEnables(configs, p) THEN InsertionOrder(GetStandardsColumns(p))
    ELSE EnabledNames(configs)

\* value >= standard_value
ExceedsAtOrAbove(value, standard_value) ==
    NumGreater(value, standard_value) \/ NumEqual(value, standard_value)

\* value > standard_value
Exceeds(value, standard_value) == NumGreater(value, standard_value)

\* the keys of exceeded_standards, in insertion order
RECURSIVE ExceededFrom(_, _, _, _, _)
ExceededFrom(p, analyte_name, value, names, i) ==
    IF i > Len(names) THEN <<>>
    ELSE LET standard_value == GetStandardsValue(p, analyte_name, names[i])
             rest == ExceededFrom(p, analyte_name, value, names, i + 1)
         IN  IF standard_value.ok /\ Exceeds(value, standard_value)
             THEN <<names[i]>> \o rest
             ELSE rest

\* min(exceeded_standards.values()) is the value of this key
HighestExceededLowest(p, analyte_name, exceeded) ==
    CHOOSE n \in {exceeded[i] : i \in 1..Len(exceeded)} :
        \A j \in 1..Len(exceeded) :
            ~NumGreater(GetStandardsValue(p, analyte_name, n),
                        GetStandardsValue(p, analyte_name, exceeded[j]))

\* max(exceeded_standards.values()) is the value of this key
HighestExceeded(p, analyte_name, exceeded) ==
    CHOOSE n \in {exceeded[i] : i \in 1..Len(exceeded)} :
        \A j \in 1..Len(exceeded) :
            ~NumGreater(GetStandardsValue(p, analyte_name, exceeded[j]),
                        GetStandardsValue(p, analyte_name, n))

\* the positions of standards_columns whose name is exceeded at the highest value
HighestPositions(p, analyte_name, exceeded) ==
    LET top == GetStandardsValue(p, analyte_name, HighestExceeded(p, analyte_name, exceeded))
    IN  {i \in 1..Len(p.standards_columns) :
            /\ \E j \in 1..Len(exceeded) : exceeded[j] = p.standards_columns[i]
            /\ NumEqual(GetStandardsValue(p, analyte_name, p.standards_columns[i]), top)}

\* a loop over standards_columns that stops at the first match
PickFirstPosition(positions) == CHOOSE i \in positions : \A j \in positions : i <= j

\* the loop over standards_columns keeps the last match
PickPosition(positions) == CHOOSE i \in positions : \A j \in positions : j <= i

\* the fallback of the source: the first exceeded key at the highest value
FirstExceededAtTop(p, analyte_name, exceeded) ==
    LET top == GetStandardsValue(p, analyte_name, HighestExceeded(p, analyte_name, exceeded))
        at_top == {j \in 1..Len(exceeded) :
                      NumEqual(GetStandardsValue(p, analyte_name, exceeded[j]), top)}
    IN  exceeded[CHOOSE j \in at_top : \A k \in at_top : j <= k]

CheckExceedance(configs, analyte_name, value, p) ==
    LET exceeded == ExceededFrom(p, analyte_name, value, CheckedNames(configs, p), 1)
    IN  IF exceeded = <<>>
        THEN [is_exceeded |-> FALSE, col |-> None]
        ELSE LET positions == HighestPositions(p, analyte_name, exceeded)
             IN  [is_exceeded |-> TRUE,
                  col |-> IF positions # {}
                          THEN p.standards_columns[PickPosition(positions)]
                          ELSE FirstExceededAtTop(p, analyte_name, exceeded)]

(***************************************************************************)
(* CustomizationService: display names, dates and non-detects              *)
(***************************************************************************)
\* self.analyte_mappings.get(original_name, original_name)
GetAnalyteDisplayName(st, original_name) ==
    IF original_name \in DOMAIN st.analyte_mappings
    THEN st.analyte_mappings[original_name]
    ELSE original_name

\* str.split(sep) for a one-character sep
RECURSIVE Split(_, _)
Split(s, sep) ==
    LET i == Find(s, <<sep>>)
    IN  IF i = 0 - 1 THEN <<s>>
        ELSE <<SubSeq(s, 1, i)>> \o Split(SubSeq(s, i + 2, Len(s)), sep)

\* str.split(sep, maxsplit)
RECURSIVE SplitMax(_, _, _)
SplitMax(s, sep, maxsplit) ==
    LET i == Find(s, <<sep>>)
    IN  IF i = 0 - 1 \/ maxsplit = 0 THEN <<s>>
        ELSE <<SubSeq(s, 1, i)>> \o SplitMax(SubSeq(s, i + 2, Len(s)), sep, maxsplit - 1)

\* the days of a month of the proleptic Gregorian calendar
DaysInMonth(year, month) ==
    IF month = 2
    THEN IF year % 4 = 0 /\ (year % 100 # 0 \/ year % 400 = 0) THEN 29 ELSE 28
    ELSE IF month \in {4, 6, 9, 11} THEN 30 ELSE 31

\* datetime.strptime(date_str, '%Y-%m-%d'): four digits, then a month and
\* a day of one or two digits; ok = FALSE is ValueError
StrpTime(date_str) ==
    LET parts == Split(date_str, "-")
        wellformed == /\ Len(parts) = 3
                      /\ Len(parts[1]) = 4 /\ AllDigits(parts[1])
                      /\ Len(parts[2]) \in {1, 2} /\ AllDigits(parts[2])
                      /\ Len(parts[3]) \in {1, 2} /\ AllDigits(parts[3])
    IN  IF ~wellformed THEN [ok |-> FALSE, year |-> 0, month |-> 0, day |-> 0]
        ELSE LET year == DigitsValue(parts[1])
                 month == DigitsValue(parts[2])
                 day == DigitsValue(parts[3])
             IN  IF year >= 1 /\ month \in 1..12 /\ day \in 1..DaysInMonth(year, month)
                 THEN [ok |-> TRUE, year |-> year, month |-> month, day |-> day]
                 ELSE [ok |-> FALSE, year |-> 0, month |-> 0, day |-> 0]

\* %m and %d: two digits
TwoDigits(n) == IF n < 10 THEN <<"0">> \o IntToStr(n) ELSE IntToStr(n)

\* %B
MonthName ==
    <<<<"J", "a", "n", "u", "a", "r", "y">>, <<"F", "e", "b", "r", "u", "a", "r", "y">>, <<"M", "a", "r", "c", "h">>, <<"A", "p", "r", "i", "l">>, <<"M", "a", "y">>, <<"J", "u", "n", "e">>, <<"J", "u", "l", "y">>,
      <<"A", "u", "g", "u", "s", "t">>, <<"S", "e", "p", "t", "e", "m", "b", "e", "r">>, <<"O", "c", "t", "o", "b", "e", "r">>, <<"N", "o", "v", "e", "m", "b", "e", "r">>, <<"D", "e", "c", "e", "m", "b", "e", "r">>>>

\* date_obj.strftime(format_map.get(date_format, "%Y-%m-%d")); %Y is the
\* year as glibc prints it, without padding
StrfTime(d, date_format) ==
    LET Y == IntToStr(d.year)
        m == TwoDigits(d.month)
        dd == TwoDigits(d.day)
        B == MonthName[d.month]
        b == SubSeq(B, 1, 3)
    IN  CASE date_format = "MM/DD/YYYY" -> m \o <<"/">> \o dd \o <<"/">> \o Y
          [] date_format = "DD/MM/YYYY" -> dd \o <<"/">> \o m \o <<"/">> \o Y
          [] date_format = "MM-DD-YYYY" -> m \o <<"-">> \o dd \o <<"-">> \o Y
          [] date_format = "DD-MM-YYYY" -> dd \o <<"-">> \o m \o <<"-">> \o Y
          [] date_format = "MMM DD, YYYY" -> b \o <<" ">> \o dd \o <<",", " ">> \o Y
          [] date_format = "MMMM DD, YYYY" -> B \o <<" ">> \o dd \o <<",", " ">> \o Y
          [] date_format = "YYYY/MM/DD" -> Y \o <<"/">> \o m \o <<"/">> \o dd
          [] date_format = "MMMM, YYYY" -> B \o <<",", " ">> \o Y
          [] date_format = "MMM, YYYY" -> b \o <<",", " ">> \o Y
          [] OTHER -> Y \o <<"-">> \o m \o <<"-">> \o dd

FormatDate(st, date_str) ==
    IF date_str = <<>> THEN date_str
    ELSE LET date_obj == StrpTime(date_str)
         IN  IF date_obj.ok THEN StrfTime(date_obj, st.date_format) ELSE date_str

\* a value kept as it is
KeepNonDetect(st, value) == value

ProcessNonDetectValue(st, value) ==
    IF ~st.show_non_detect_as_nd THEN value
    ELSE IF StartsWith(Strip(value), "<") /\ EndsWith(Strip(value), "U") THEN <<"N", "D">>
    ELSE value

(***************************************************************************)
(* TagGenerator.  self is the generator: its parser, whether it was given  *)
(* a customization service, and that service's settings.  The exceedance   *)
(* configurations of the service are threaded through the cells in the     *)
(* order the loops visit them, since check_exceedance may add to them.     *)
(***************************************************************************)
\* TagRow(...) with __post_init__
TagRow(analyte_name, values, is_highlighted, exceeded_standards_cols) ==
    [analyte_name |-> analyte_name,
     values |-> values,
     is_highlighted |-> is_highlighted,
     exceeded_standards_cols |->
         IF exceeded_standards_cols = <<>> \/ Len(exceeded_standards_cols) # Len(values)
         THEN [i \in 1..Len(values) |-> None]
         ELSE exceeded_standards_cols]

\* a row of cells that are neither highlighted nor labelled
PlainRow(values) ==
    TagRow(<<>>, values, [i \in 1..Len(values) |-> FALSE], [i \in 1..Len(values) |-> None])

\* the list as it is, without list.sort()
Unsorted(list) == list

\* list.sort() on str: insertion after the last element that is not greater
RECURSIVE SortStrings(_)
SortStrings(list) ==
    IF list = <<>> THEN <<>>
    ELSE LET front == SortStrings(DropLast(list))
             x == list[Len(list)]
             before == {i \in 1..Len(front) : ~StrLess(x, front[i])}
             n == IF before = {} THEN 0 ELSE CHOOSE i \in before : \A j \in before : j <= i
         IN  SubSeq(front, 1, n) \o <<x>> \o SubSeq(front, n + 1, Len(front))

\* list.sort(key=lambda x: (x[0], _get_depth_sort_key(x[1] if x[1] else "")))
RECURSIVE SortDateDepthPairs(_)
SortDateDepthPairs(list) ==
    IF list = <<>> THEN <<>>
    ELSE LET front == SortDateDepthPairs(DropLast(list))
             x == list[Len(list)]
             before == {i \in 1..Len(front) : ~DateDepthLess(x, front[i])}
             n == IF before = {} THEN 0 ELSE CHOOSE i \in before : \A j \in before : j <= i
         IN  SubSeq(front, 1, n) \o <<x>> \o SubSeq(front, n + 1, Len(front))

\* date_item.startswith("DATE:")
StartsWithDate(date_item) ==
    Len(date_item) >= 5 /\ SubSeq(date_item, 1, 5) = <<"D", "A", "T", "E", ":">>

\* the date_with_depth of a selected date key; ok = FALSE when the key is skipped
ParseDateItem(date_item) ==
    LET parts == Split(date_item, ":")
    IN  IF StartsWithDate(date_item) /\ Len(parts) >= 3
        THEN [ok |-> TRUE, location_id |-> parts[2],
              date_with_depth |-> IF Len(parts) = 4
                                  THEN parts[3] \o <<":">> \o parts[4]
                                  ELSE parts[3]]
        ELSE [ok |-> FALSE, location_id |-> <<>>, date_with_depth |-> <<>>]

\* the dict location_dates as the sequence of its items in insertion order
GroupDatesByLocation(selected_locations, selected_dates) ==
    LET keys == InsertionOrder(selected_locations)
        RECURSIVE DatesOf(_, _)
        DatesOf(location_id, i) ==
            IF i > Len(selected_dates) THEN <<>>
            ELSE LET item == ParseDateItem(selected_dates[i])
                 IN  (IF item.ok /\ item.location_id = location_id
                      THEN <<item.date_with_depth>> ELSE <<>>)
                     \o DatesOf(location_id, i + 1)
    IN  [k \in 1..Len(keys) |->
            [location_id |-> keys[k], dates |-> SortStrings(DatesOf(keys[k], 1))]]

\* a result cell that is placed without the exceedance check
UncheckedCell(self, configs, location_id, date, analyte_name, depth) ==
    LET result == GetResultValue(self.parser, location_id, date, analyte_name, depth)
    IN  [found |-> result.found, value |-> result.value, is_highlighted |-> FALSE,
         exceeded_standards_col |-> None, configs |-> configs]

\* a result cell that is compared by the number in front of its qualifiers
QualifiedCell(self, configs, location_id, date, analyte_name, depth) ==
    LET result == GetResultValue(self.parser, location_id, date, analyte_name, depth)
        checked == CheckExceedance(configs, analyte_name, RankOf(result.value), self.parser)
    IN  [found |-> result.found, value |-> result.value,
         is_highlighted |-> result.found /\ checked.is_exceeded,
         exceeded_standards_col |-> IF result.found THEN checked.col ELSE None,
         configs |-> configs]

\* a cell that check_exceedance has judged, lines 305-321
CheckedCell(result_value, checked, configs) ==
    [found |-> TRUE, value |-> result_value, is_highlighted |-> checked.is_exceeded,
     exceeded_standards_col |-> checked.col, configs |-> configs]

\* lines 302-330: the cell of a result, its string and float(result_value)
CellOfNumber(self, configs, analyte_name, found, result_value, numeric_value, threshold) ==
    IF ~found
    THEN [found |-> FALSE, value |-> <<>>, is_highlighted |-> FALSE,
          exceeded_standards_col |-> None, configs |-> configs]
    ELSE IF self.customization_service
    THEN IF numeric_value.ok
         THEN CheckedCell(result_value,
                          CheckExceedance(configs, analyte_name, numeric_value, self.parser),
                          ConfigsAfterCheck(configs, self.parser))
         ELSE [found |-> TRUE, value |-> result_value, is_highlighted |-> FALSE,
               exceeded_standards_col |-> None, configs |-> configs]
    ELSE [found |-> TRUE, value |-> result_value,
          is_highlighted |-> threshold.ok /\ numeric_value.ok
                             /\ NumGreater(numeric_value, threshold),
          exceeded_standards_col |-> None, configs |-> configs]

\* numeric_value = float(result_value), threshold = get_analyte_threshold
CellOfValue(self, configs, analyte_name, found, result_value) ==
    CellOfNumber(self, configs, analyte_name, found, result_value, ParseFloat(result_value),
                 IF analyte_name \in DOMAIN self.parser.analyte_thresholds
                 THEN self.parser.analyte_thresholds[analyte_name]
                 ELSE NoFloat)

\* lines 298-300: process_non_detect_value when a service is given
CellOfResult(self, configs, analyte_name, result) ==
    CellOfValue(self, configs, analyte_name, result.found,
                IF self.customization_service
                THEN ProcessNonDetectValue(self.settings, result.value)
                ELSE result.value)

\* one result cell, lines 295-330 (186-221 in the depth layout): the value
\* placed, its highlight flag and label, and the configurations afterwards;
\* found = FALSE is the branch of a missing result
TagCell(self, configs, location_id, date, analyte_name, depth) ==
    CellOfResult(self, configs, analyte_name,
                 GetResultValue(self.parser, location_id, date, analyte_name, depth))

DisplayName(self, analyte_name) ==
    IF self.customization_service
    THEN GetAnalyteDisplayName(self.settings, analyte_name)
    ELSE analyte_name

FormattedDate(self, date) ==
    IF self.customization_service THEN FormatDate(self.settings, date) ELSE date

DateHeaderText(self) ==
    IF self.customization_service THEN self.settings.date_header_text
    ELSE <<"A", "n", "a", "l", "y", "t", "e">>

PrependCell(cell, rest) == [cells |-> <<cell>> \o rest.cells, configs |-> rest.configs]

PrependRow(row, rest) == [rows |-> <<row>> \o rest.rows, configs |-> rest.configs]

\* the cells of an analyte row of the column layout, from the d-th date on;
\* each cell is made with the configurations the cell before it left
RECURSIVE TagCellsFrom(_, _, _, _, _, _)
RECURSIVE TagCellsAfter(_, _, _, _, _, _)
TagCellsAfter(self, cell, location_id, dates, analyte_name, d) ==
    PrependCell(cell, TagCellsFrom(self, cell.configs, location_id, dates, analyte_name, d + 1))

TagCellsFrom(self, configs, location_id, dates, analyte_name, d) ==
    IF d > Len(dates) THEN [cells |-> <<>>, configs |-> configs]
    ELSE TagCellsAfter(self, TagCell(self, configs, location_id, dates[d], analyte_name, None),
                       location_id, dates, analyte_name, d)

\* lines 280-335: the TagRow of an analyte
AnalyteRowOfCells(self, analyte_name, cells) ==
    TagRow(analyte_name,
           <<DisplayName(self, analyte_name)>> \o [d \in 1..Len(cells) |-> cells[d].value],
           <<FALSE>> \o [d \in 1..Len(cells) |-> cells[d].is_highlighted],
           <<None>> \o [d \in 1..Len(cells) |-> cells[d].exceeded_standards_col])

\* the analyte rows of the column layout, from the i-th selected analyte on
RECURSIVE TagAnalyteRows(_, _, _, _, _, _)
RECURSIVE TagAnalyteRowsAfter(_, _, _, _, _, _)
TagAnalyteRowsAfter(self, row, location_id, dates, selected_analytes, i) ==
    PrependRow(AnalyteRowOfCells(self, selected_analytes[i], row.cells),
               TagAnalyteRows(self, row.configs, location_id, dates, selected_analytes, i + 1))

TagAnalyteRows(self, configs, location_id, dates, selected_analytes, i) ==
    IF i > Len(selected_analytes) THEN [rows |-> <<>>, configs |-> configs]
    ELSE TagAnalyteRowsAfter(self,
             TagCellsFrom(self, configs, location_id, dates, selected_analytes[i], 1),
             location_id, dates, selected_analytes, i)

TagOfRows(location_id, dates, header_row, date_row, analyte_rows) ==
    [tag |-> [location_id |-> location_id, dates |-> dates, header_row |-> header_row,
              analyte_rows |-> <<date_row>> \o analyte_rows.rows],
     configs |-> analyte_rows.configs]

CreateTagWithoutSampleDepth(self, configs, location_id, dates, selected_analytes) ==
    TagOfRows(location_id, dates,
              PlainRow(<<location_id>> \o [d \in 1..Len(dates) |-> <<>>]),
              PlainRow(<<DateHeaderText(self)>>
                       \o [d \in 1..Len(dates) |-> FormattedDate(self, dates[d])]),
              TagAnalyteRows(self, configs, location_id, dates, selected_analytes, 1))

\* the (date, depth) pairs of the selected entries, sorted
DateDepthPairs(dates) ==
    SortDateDepthPairs(
        [d \in 1..Len(dates) |->
            IF Find(dates[d], <<":">>) # 0 - 1
            THEN LET date_parts == SplitMax(dates[d], ":", 1)
                 IN  <<date_parts[1], date_parts[2]>>
            ELSE <<dates[d], None>>])

\* lines 203-221: the row of an analyte in a block
BlockRow(self, analyte_name, cell) ==
    TagRow(analyte_name, <<DisplayName(self, analyte_name), cell.value>>,
           <<FALSE, cell.is_highlighted>>, <<None, cell.exceeded_standards_col>>)

\* the analyte rows of a block, from the a-th selected analyte on
RECURSIVE BlockRowsFrom(_, _, _, _, _, _, _)
RECURSIVE BlockRowsAfter(_, _, _, _, _, _, _)
BlockRowsAfter(self, cell, location_id, date, depth, selected_analytes, a) ==
    PrependRow(BlockRow(self, selected_analytes[a], cell),
               BlockRowsFrom(self, cell.configs, location_id, date, depth,
                             selected_analytes, a + 1))

BlockRowsFrom(self, configs, location_id, date, depth, selected_analytes, a) ==
    IF a > Len(selected_analytes) THEN [rows |-> <<>>, configs |-> configs]
    ELSE BlockRowsAfter(self,
             TagCell(self, configs, location_id, date, selected_analytes[a], depth),
             location_id, date, depth, selected_analytes, a)

\* the label rows of a block without the row of the sample interval
BlockLabelsWithoutInterval(self, location_id, date, depth) ==
    <<PlainRow(<<<<"L", "o", "c", "a", "t", "i", "o", "n", " ", "I", "D", ":">>, location_id>>),
      PlainRow(<<<<"D", "a", "t", "e", " ", "S", "a", "m", "p", "l", "e", "d", ":">>, FormattedDate(self, date)>>)>>

\* lines 157-181: the label rows of a block
BlockLabels(self, location_id, date, depth) ==
    <<PlainRow(<<<<"L", "o", "c", "a", "t", "i", "o", "n", " ", "I", "D", ":">>, location_id>>),
      PlainRow(<<<<"D", "a", "t", "e", " ", "S", "a", "m", "p", "l", "e", "d", ":">>, FormattedDate(self, date)>>)>>
    \o (IF depth # None THEN <<PlainRow(<<<<"S", "a", "m", "p", "l", "e", " ", "i", "n", "t", "e", "r", "v", "a", "l", ":">>, depth>>)>> ELSE <<>>)

JoinBlocks(labels, analyte_rows, rest) ==
    [rows |-> labels \o analyte_rows.rows \o rest.rows, configs |-> rest.configs]

\* the rows of the blocks of the depth layout, from the i-th pair on
RECURSIVE TagBlocks(_, _, _, _, _, _)
RECURSIVE TagBlocksAfter(_, _, _, _, _, _)
TagBlocksAfter(self, analyte_rows, location_id, date_depth_pairs, selected_analytes, i) ==
    JoinBlocks(BlockLabels(self, location_id, date_depth_pairs[i][1], date_depth_pairs[i][2]),
               analyte_rows,
               TagBlocks(self, analyte_rows.configs, location_id, date_depth_pairs,
                         selected_analytes, i + 1))

TagBlocks(self, configs, location_id, date_depth_pairs, selected_analytes, i) ==
    IF i > Len(date_depth_pairs) THEN [rows |-> <<>>, configs |-> configs]
    ELSE TagBlocksAfter(self,
             BlockRowsFrom(self, configs, location_id, date_depth_pairs[i][1],
                           date_depth_pairs[i][2], selected_analytes, 1),
             location_id, date_depth_pairs, selected_analytes, i)

\* lines 227-241: the first row is the header row of the tag
TagOfBlocks(location_id, dates, blocks) ==
    [tag |-> [location_id |-> location_id, dates |-> dates,
              header_row |-> IF blocks.rows # <<>> THEN blocks.rows[1]
                             ELSE TagRow(<<>>, <<location_id>>, <<FALSE>>, <<None>>),
              analyte_rows |-> IF Len(blocks.rows) > 1 THEN Tail(blocks.rows) ELSE <<>>],
     configs |-> blocks.configs]

CreateTagWithSampleDepth(self, configs, location_id, dates, selected_analytes) ==
    TagOfBlocks(location_id, dates,
                TagBlocks(self, configs, location_id, DateDepthPairs(dates),
                          selected_analytes, 1))

CreateTagForLocation(self, configs, location_id, dates, selected_analytes) ==
    IF self.parser.has_sample_depth
    THEN CreateTagWithSampleDepth(self, configs, location_id, dates, selected_analytes)
    ELSE CreateTagWithoutSampleDepth(self, configs, location_id, dates, selected_analytes)

PrependTag(made, rest) == [tags |-> <<made.tag>> \o rest.tags, configs |-> rest.configs]

\* lines 52-60: a tag for each location that has dates, from the k-th on
RECURSIVE TagsFrom(_, _, _, _, _)
RECURSIVE TagsAfter(_, _, _, _, _)
TagsAfter(self, made, location_dates, selected_analytes, k) ==
    PrependTag(made, TagsFrom(self, made.configs, location_dates, selected_analytes, k + 1))

TagsFrom(self, configs, location_dates, selected_analytes, k) ==
    IF k > Len(location_dates) THEN [tags |-> <<>>, configs |-> configs]
    ELSE IF location_dates[k].dates = <<>>
    THEN TagsFrom(self, configs, location_dates, selected_analytes, k + 1)
    ELSE TagsAfter(self,
             CreateTagForLocation(self, configs, location_dates[k].location_id,
                                  location_dates[k].dates, selected_analytes),
             location_dates, selected_analytes, k)

\* the tags and the configurations of the service after the call
GenerateTags(self, configs, selected_locations, selected_analytes, selected_dates) ==
    TagsFrom(self, configs, GroupDatesByLocation(selected_locations, selected_dates),
             selected_analytes, 1)

\* Tag.get_all_rows
GetAllRows(tag) == <<tag.header_row>> \o tag.analyte_rows

(***************************************************************************)
(* PreviewService.  Its cell and row loops are the code of TagGenerator    *)
(* line for line (preview_service.py 293-353 and 152-241), with dicts in   *)
(* place of TagRow; a preview row is the TagRow record plus its 'type'.    *)
(***************************************************************************)
PreviewRow(type, row) ==
    [type |-> type, analyte_name |-> row.analyte_name, values |-> row.values,
     is_highlighted |-> row.is_highlighted,
     exceeded_standards_cols |-> row.exceeded_standards_cols]

\* the dict location_dates as the sequence of its items in insertion order
PreviewGroupDatesByLocation(p, selected_locations, selected_dates) ==
    LET keys == InsertionOrder(selected_locations)
        available_combinations(location_id) ==
            IF p.has_sample_depth /\ location_id \in DOMAIN p.date_depth_combinations
            THEN p.date_depth_combinations[location_id] ELSE <<>>
        available_dates(location_id) ==
            IF location_id \in DOMAIN p.location_dates
            THEN p.location_dates[location_id] ELSE <<>>
        Among(x, list) == \E i \in 1..Len(list) : list[i] = x
        Selected(location_id, date_item) ==
            IF ~StartsWithDate(date_item) THEN <<>>
            ELSE IF p.has_sample_depth
            THEN LET parts == Split(date_item, ":")
                 IN  IF /\ Len(parts) = 4 /\ parts[2] = location_id
                        /\ Among(<<parts[3], parts[4]>>, available_combinations(location_id))
                     THEN <<parts[3] \o <<":">> \o parts[4]>> ELSE <<>>
            ELSE LET parts == SplitMax(date_item, ":", 2)
                 IN  IF /\ Len(parts) >= 3 /\ parts[2] = location_id
                        /\ Among(parts[3], available_dates(location_id))
                     THEN <<parts[3]>> ELSE <<>>
        RECURSIVE DatesOf(_, _)
        DatesOf(location_id, i) ==
            IF i > Len(selected_dates) THEN <<>>
            ELSE Selected(location_id, selected_dates[i]) \o DatesOf(location_id, i + 1)
    IN  [k \in 1..Len(keys) |-> [location_id |-> keys[k], dates |-> DatesOf(keys[k], 1)]]

PreviewOfRows(location_id, dates, formatted_dates, date_header_text, analyte_rows) ==
    [preview |-> [location_id |-> location_id, dates |-> dates,
                  formatted_dates |-> formatted_dates,
                  rows |-> <<PreviewRow("location_header",
                                        PlainRow(<<location_id>>
                                                 \o [d \in 1..Len(dates) |-> <<>>])),
                             PreviewRow("header",
                                        PlainRow(<<date_header_text>> \o formatted_dates))>>
                           \o [r \in 1..Len(analyte_rows.rows) |->
                                  PreviewRow("analyte", analyte_rows.rows[r])],
                  total_columns |-> Len(formatted_dates) + 1],
     configs |-> analyte_rows.configs]

CreatePreviewWithoutSampleDepth(self, configs, location_id, dates, selected_analytes) ==
    PreviewOfRows(location_id, dates,
                  [d \in 1..Len(dates) |-> FormattedDate(self, dates[d])],
                  DateHeaderText(self),
                  TagAnalyteRows(self, configs, location_id, dates, selected_analytes, 1))

PreviewOfBlocks(location_id, dates, blocks) ==
    [preview |-> [location_id |-> location_id, dates |-> dates,
                  formatted_dates |-> <<>>,
                  rows |-> [r \in 1..Len(blocks.rows) |->
                               PreviewRow(IF blocks.rows[r].analyte_name = <<>>
                                          THEN "label" ELSE "analyte",
                                          blocks.rows[r])],
                  total_columns |-> 2],
     configs |-> blocks.configs]

CreatePreviewWithSampleDepth(self, configs, location_id, dates, selected_analytes) ==
    PreviewOfBlocks(location_id, dates,
                    TagBlocks(self, configs, location_id, DateDepthPairs(dates),
                              selected_analytes, 1))

\* preview_service.py lines 111-128
CreatePreviewForLocation(self, configs, location_id, dates, selected_analytes) ==
    IF self.parser.has_sample_depth
    THEN CreatePreviewWithSampleDepth(self, configs, location_id, dates, selected_analytes)
    ELSE CreatePreviewWithoutSampleDepth(self, configs, location_id, dates, selected_analytes)

PrependPreview(made, rest) ==
    [preview_data |-> <<made.preview>> \o rest.preview_data, configs |-> rest.configs]

\* a preview for each location that has dates, from the k-th on
RECURSIVE PreviewsFrom(_, _, _, _, _)
RECURSIVE PreviewsAfter(_, _, _, _, _)
PreviewsAfter(self, made, location_dates, selected_analytes, k) ==
    PrependPreview(made,
                   PreviewsFrom(self, made.configs, location_dates, selected_analytes, k + 1))

PreviewsFrom(self, configs, location_dates, selected_analytes, k) ==
    IF k > Len(location_dates) THEN [preview_data |-> <<>>, configs |-> configs]
    ELSE IF location_dates[k].dates = <<>>
    THEN PreviewsFrom(self, configs, location_dates, selected_analytes, k + 1)
    ELSE PreviewsAfter(self,
             CreatePreviewForLocation(self, configs, location_dates[k].location_id,
                                      location_dates[k].dates, selected_analytes),
             location_dates, selected_analytes, k)

\* the previews and the configurations of the service after the call
GeneratePreviewData(self, configs, selected_locations, selected_analytes, selected_dates) ==
    PreviewsFrom(self, configs,
                 PreviewGroupDatesByLocation(self.parser, selected_locations, selected_dates),
                 selected_analytes, 1)

(***************************************************************************)
(* Input files.  A standards file has the layout of the input convention:  *)
(* row 0 locations, row 1 sample names, row 3 dates, row 4 the header row, *)
(* row 5 a category, rows 6 and 7 two analytes; column 0 names, columns 1  *)
(* and 2 standards, columns 3 and 4 one sampling event each.               *)
(***************************************************************************)
EPA == <<"E", "P", "A">>

DEC == <<"D", "E", "C">>

Lead == <<"L", "e", "a", "d">>

Zinc == <<"Z", "i", "n", "c">>

MW1 == <<"M", "W", "-", "1">>

Day1 == <<"2", "0", "2", "4", "-", "0", "1", "-", "1", "5">>

Day2 == <<"2", "0", "2", "4", "-", "0", "2", "-", "2", "0">>

StdFile(h1, h2, s11, s12, s21, s22) ==
    <<<<<<"L", "o", "c", "a", "t", "i", "o", "n", " ", "I", "D">>, NaN, NaN, MW1, MW1>>,
      <<<<"S", "a", "m", "p", "l", "e", " ", "N", "a", "m", "e">>, NaN, NaN, NaN, NaN>>,
      <<NaN, NaN, NaN, NaN, NaN>>,
      <<<<"S", "a", "m", "p", "l", "e", " ", "D", "a", "t", "e">>, NaN, NaN, Day1, Day2>>,
      <<<<"A", "n", "a", "l", "y", "t", "e">>, h1, h2, NaN, NaN>>,
      <<<<"M", "e", "t", "a", "l", "s">>, NaN, NaN, NaN, NaN>>,
      <<Lead, s11, s12, <<"7", ".", "2">>, <<"<", " ", "5", ".", "0", " ", "U">>>>,
      <<Zinc, s21, s22, <<"3">>, NaN>>>>

\* a grid of two rows: the date row is missing
ShortFile ==
    <<<<<<"L", "o", "c", "a", "t", "i", "o", "n", " ", "I", "D">>, NaN, NaN, MW1>>,
      <<<<"S", "a", "m", "p", "l", "e", " ", "N", "a", "m", "e">>, NaN, NaN, NaN>>>>

StandardsNames == {EPA, DEC}

\* the header cells of columns 1 and 2: distinct names in both orders, and one name twice
HeaderPairs == {<<EPA, DEC>>, <<DEC, EPA>>, <<EPA, EPA>>}

StandardsFiles ==
    {StdFile(h[1], h[2], s11, s12, s21, <<"N", "A">>) :
        h \in HeaderPairs,
        s11 \in {NaN, <<"1">>, <<"2">>}, s12 \in {NaN, <<"1">>, <<"2">>},
        s21 \in {NaN, <<"2">>}}

Files == StandardsFiles \cup {ShortFile, Unreadable}

TextColors == {DefaultTextColor, "#FF0000"}

AnalyteNames == {Lead, Zinc}

\* the values handed to check_exceedance: 0 .. MaxValue
MaxValue == 3

Values == {Finite(v, 1) : v \in 0..MaxValue}

(***************************************************************************)
(* The objects and their operations, called in any order                   *)
(***************************************************************************)
\* initialize_session_state: uploaded_file = None is NoFile, parser = None
\* is parser_set = FALSE; the name of an uploaded file stands for the file
NoFile == <<>>

NoSession ==
    [uploaded_file |-> NoFile, parser_set |-> FALSE, file_loaded |-> FALSE,
     has_sample_depth |-> FALSE]

Init ==
    /\ parser = NewParser
    /\ exceedance_configs = <<>>
    /\ settings = DefaultSettings
    /\ session = NoSession
    /\ op = "init"
    /\ args = <<>>
    /\ ret = <<>>
    /\ locals = <<>>

\* parser = ExcelParser(); parser.has_sample_depth = depth; parser.load_file(file)
\* for every input file, computed once: the object after the call and the
\* value returned
FreshLoad ==
    [file \in Files |->
        [depth \in BOOLEAN |->
            [parser |-> LoadFile([NewParser EXCEPT !.has_sample_depth = depth], file),
             ok |-> ~LoadFileRaises([NewParser EXCEPT !.has_sample_depth = depth], file)]]]

\* parser = ExcelParser(); parser.load_file(file)
CallLoadFile(file) ==
    /\ parser' = FreshLoad[file][FALSE].parser
    /\ op' = "load_file"
    /\ args' = <<>>
    /\ ret' = FreshLoad[file][FALSE].ok
    /\ locals' = <<>>
    /\ UNCHANGED <<exceedance_configs, session, settings>>

CallInitializeExceedanceConfigs ==
    /\ exceedance_configs' = InitializeExceedanceConfigs(exceedance_configs, parser)
    /\ op' = "initialize_exceedance_configs"
    /\ args' = <<>>
    /\ ret' = <<>>
    /\ locals' = <<>>
    /\ UNCHANGED <<parser, session, settings>>

CallSetStandardsEnabled(name, enabled) ==
    /\ exceedance_configs' = SetStandardsEnabled(exceedance_configs, name, enabled)
    /\ op' = "set_standards_enabled"
    /\ args' = <<>>
    /\ ret' = <<>>
    /\ locals' = <<>>
    /\ UNCHANGED <<parser, session, settings>>

CallSetStandardsTextColor(name, color) ==
    /\ exceedance_configs' = SetStandardsTextColor(exceedance_configs, name, color)
    /\ op' = "set_standards_text_color"
    /\ args' = <<>>
    /\ ret' = <<>>
    /\ locals' = <<>>
    /\ UNCHANGED <<parser, session, settings>>

\* locals.all_configs is the copy of the settings taken on entry
CallCheckExceedance(analyte_name, value) ==
    /\ ret' = CheckExceedance(exceedance_configs, analyte_name, value, parser)
    /\ exceedance_configs' = ConfigsAfterCheck(exceedance_configs, parser)
    /\ op' = "check_exceedance"
    /\ args' = [analyte_name |-> analyte_name, value |-> value]
    /\ locals' = [all_configs |-> exceedance_configs]
    /\ UNCHANGED <<parser, session, settings>>

Next ==
    \/ \E file \in Files : CallLoadFile(file)
    \/ CallInitializeExceedanceConfigs
    \/ \E name \in StandardsNames, enabled \in BOOLEAN : CallSetStandardsEnabled(name, enabled)
    \/ \E name \in StandardsNames, color \in TextColors : CallSetStandardsTextColor(name, color)
    \/ \E analyte_name \in AnalyteNames, value \in Values :
          CallCheckExceedance(analyte_name, value)

Spec == Init /\ [][Next]_vars

(***************************************************************************)
(* The session of the application: render_file_upload, the exceedance      *)
(* section of the sidebar, and the exceedance checks of preview and export *)
(* on the session's single CustomizationService.                           *)
(***************************************************************************)
\* an uploaded file whose extension validate_file_extension rejects
BadExtension == <<<<<<"!">>>>>>

\* files with no standards column, with EPA only, with DEC only and with
\* both, a file whose parse raises and a file that cannot be read
SessionFiles ==
    {StdFile(EPA, DEC, s11, s12, NaN, <<"N", "A">>) : s11 \in {NaN, <<"1">>}, s12 \in {NaN, <<"2">>}}
    \cup {ShortFile, Unreadable}

\* reset_file_state
ResetFileState(st) ==
    [st EXCEPT !.session.uploaded_file = NoFile,
               !.session.parser_set = FALSE,
               !.session.file_loaded = FALSE]

\* a successful load: the parser is stored and the configurations of its
\* standards columns are initialised
StoreParser(st, loaded) ==
    [st EXCEPT !.parser = loaded.parser,
               !.session.parser_set = TRUE,
               !.session.file_loaded = TRUE,
               !.configs = InitializeExceedanceConfigs(st.configs, loaded.parser)]

\* the sample-depth checkbox and the re-parse it triggers; loads[file][depth]
\* is the outcome of load_file on a new parser
ReparseStep(st, has_sample_depth, saved, loads) ==
    LET previous == st.session.has_sample_depth
        st1 == [st EXCEPT !.session.has_sample_depth = has_sample_depth]
    IN  IF /\ has_sample_depth # previous
           /\ st.session.file_loaded
           /\ st.session.uploaded_file # NoFile
           /\ saved
           /\ loads[st.session.uploaded_file][has_sample_depth].ok
        THEN StoreParser(st1, loads[st.session.uploaded_file][has_sample_depth])
        ELSE st1

\* the file uploader and the load of a new file
UploadStep(st, uploaded_file, saved, loads) ==
    IF uploaded_file = NoFile
    THEN IF st.session.uploaded_file = NoFile THEN ResetFileState(st) ELSE st
    ELSE IF uploaded_file = BadExtension
    THEN ResetFileState(st)
    ELSE IF \/ st.session.uploaded_file = NoFile
            \/ st.session.uploaded_file # uploaded_file
            \/ ~st.session.file_loaded
    THEN LET st1 == [st EXCEPT !.session.uploaded_file = uploaded_file]
             loaded == loads[uploaded_file][st.session.has_sample_depth]
         IN  IF ~saved THEN ResetFileState(st1)
             ELSE IF loaded.ok THEN StoreParser(st1, loaded)
             ELSE ResetFileState(st1)
    ELSE IF ~st.session.parser_set /\ saved
            /\ loads[st.session.uploaded_file][st.session.has_sample_depth].ok
    THEN [StoreParser(st, loads[st.session.uploaded_file][st.session.has_sample_depth])
             EXCEPT !.session.file_loaded = st.session.file_loaded]
    ELSE st

\* one run of the script: the checkbox, then the uploader; loads is the
\* table of load outcomes, bound once for both steps
RenderFileUpload(has_sample_depth, uploaded_file, saved) ==
    \E loads \in {FreshLoad} :
        LET entry == [session |-> session, parser |-> parser, configs |-> exceedance_configs]
            reparsed == ReparseStep(entry, has_sample_depth, saved, loads)
            st == UploadStep(reparsed, uploaded_file, saved, loads)
        IN  /\ session' = st.session
            /\ parser' = st.parser
            /\ exceedance_configs' = st.configs
            /\ op' = "render_file_upload"
            /\ args' = <<>>
            /\ ret' = <<>>
            /\ locals' = <<>>
            /\ UNCHANGED settings

\* the section is shown only for a loaded file with standards columns
SidebarShown ==
    session.parser_set /\ session.file_loaded /\ GetStandardsColumns(parser) # <<>>

\* the enable checkbox of the idx-th standards column
SidebarSetEnabled(idx, enabled) ==
    /\ SidebarShown
    /\ idx \in 1..Len(parser.standards_columns)
    /\ ConfigOf(exceedance_configs, parser.standards_columns[idx]).enabled # enabled
    /\ CallSetStandardsEnabled(parser.standards_columns[idx], enabled)

\* the colour picker of the idx-th standards column
SidebarSetTextColor(idx, color) ==
    /\ SidebarShown
    /\ idx \in 1..Len(parser.standards_columns)
    /\ ConfigOf(exceedance_configs, parser.standards_columns[idx]).text_color # color
    /\ CallSetStandardsTextColor(parser.standards_columns[idx], color)

\* an exceedance check of preview or export for the loaded file
SessionCheckExceedance(analyte_name, value) ==
    /\ session.parser_set /\ session.file_loaded
    /\ CallCheckExceedance(analyte_name, value)

MaxColumns == 2

NextSession ==
    \/ \E has_sample_depth \in BOOLEAN, uploaded_file \in SessionFiles \cup {NoFile, BadExtension},
          saved \in BOOLEAN :
          RenderFileUpload(has_sample_depth, uploaded_file, saved)
    \/ \E idx \in 1..MaxColumns, enabled \in BOOLEAN : SidebarSetEnabled(idx, enabled)
    \/ \E idx \in 1..MaxColumns, color \in TextColors : SidebarSetTextColor(idx, color)
    \/ \E analyte_name \in AnalyteNames, value \in Values :
          SessionCheckExceedance(analyte_name, value)

SpecSession == Init /\ [][NextSession]_vars

(***************************************************************************)
(* _resolve_duplicate_values called on lists of raw result strings         *)
(***************************************************************************)
\* plain numbers, numbers with one qualifier, with two qualifiers in both
\* orders, with a blank before the qualifier, text that is no number, a
\* number with an exponent and the text float() reads as nan
ResultStrings ==
    {<<"1">>,
     <<"2">>,
     <<"1", "0">>,
     <<"1", ".", "5">>,
     <<"-", "1">>,
     <<"2", "J">>,
     <<"1", "U">>,
     <<"1", "U", "J">>,
     <<"1", "J", "U">>,
     <<"2", " ", "J">>,
     <<"N", "D">>,
     <<"1", "e", "1">>,
     <<"N", "a", "n">>}

\* the longest list handed to the resolver
MaxValues == 3

RECURSIVE ListsOf(_, _)
ListsOf(S, n) ==
    IF n = 0 THEN {<<>>}
    ELSE LET shorter == ListsOf(S, n - 1)
         IN  shorter \cup {Append(l, x) : l \in {m \in shorter : Len(m) = n - 1}, x \in S}

\* the list waiting in result_data under one key, before it is resolved
InitResolve ==
    /\ parser = NewParser
    /\ exceedance_configs = <<>>
    /\ settings = DefaultSettings
    /\ session = NoSession
    /\ op = "init"
    /\ args \in ListsOf(ResultStrings, MaxValues)
    /\ ret = <<>>
    /\ locals = <<>>

CallResolveDuplicateValues ==
    /\ op = "init"
    /\ op' = "_resolve_duplicate_values"
    /\ ret' = ResolveDuplicateValues(args)
    /\ locals' = [numeric_parts |-> NumericParts(args)]
    /\ UNCHANGED <<parser, exceedance_configs, session, args, settings>>

NextResolve == CallResolveDuplicateValues

SpecResolve == InitResolve /\ [][NextResolve]_vars

(***************************************************************************)
(* load_file called on a parser whose has_sample_depth the caller has set  *)
(***************************************************************************)
\* three sample columns of location MW-1; the sample names n1..n3 and the
\* date of the last column decide which columns share a (location, date,
\* depth) triple
DepthFile(n1, n2, n3, d3, r1, r2) ==
    <<<<<<"L", "o", "c", "a", "t", "i", "o", "n", " ", "I", "D">>, NaN, NaN, MW1, MW1, MW1>>,
      <<<<"S", "a", "m", "p", "l", "e", " ", "N", "a", "m", "e">>, NaN, NaN, n1, n2, n3>>,
      <<NaN, NaN, NaN, NaN, NaN, NaN>>,
      <<<<"S", "a", "m", "p", "l", "e", " ", "D", "a", "t", "e">>, NaN, NaN, Day1, Day1, d3>>,
      <<<<"A", "n", "a", "l", "y", "t", "e">>, EPA, NaN, NaN, NaN, NaN>>,
      <<<<"M", "e", "t", "a", "l", "s">>, NaN, NaN, NaN, NaN, NaN>>,
      <<Lead, <<"5">>, NaN, r1, r2, <<"9">>>>>>

\* no name, two spellings of the depth 2-4, and the depth 6-8
SampleNames ==
    {NaN, <<"M", "W", "-", "1", "-", "2", "-", "4">>,
     <<"X", "-", "M", "W", "-", "1", "-", "2", "-", "4", ".", "0">>,
     <<"M", "W", "-", "1", "-", "6", ".", "0", "-", "8">>}

DepthFiles ==
    {DepthFile(n1, n2, n3, d3, r1, r2) :
        n1 \in SampleNames, n2 \in SampleNames, n3 \in SampleNames, d3 \in {Day1, Day2},
        r1 \in {NaN, <<"7">>}, r2 \in {NaN, <<"8", " ", "J">>}}

\* parser = ExcelParser(); parser.has_sample_depth = depth, and the file to load
InitParse ==
    /\ \E depth \in BOOLEAN : parser = [NewParser EXCEPT !.has_sample_depth = depth]
    /\ exceedance_configs = <<>>
    /\ settings = DefaultSettings
    /\ session = NoSession
    /\ op = "init"
    /\ args \in DepthFiles \cup {ShortFile, Unreadable}
    /\ ret = <<>>
    /\ locals = <<>>

\* parser.load_file(file)
CallLoadFileOnParser ==
    /\ op = "init"
    /\ parser' = LoadFile(parser, args)
    /\ op' = "load_file"
    /\ ret' = ~LoadFileRaises(parser, args)
    /\ UNCHANGED <<exceedance_configs, session, args, locals, settings>>

NextParse == CallLoadFileOnParser

SpecParse == InitParse /\ [][NextParse]_vars

(***************************************************************************)
(* _extract_depth_from_sample_name called on a sample name and a location  *)
(* ID                                                                      *)
(***************************************************************************)
\* IDs with and without zero-padded digit runs, and the empty ID
DepthLocationIds ==
    {<<"S", "B", "-", "A", "0", "1">>,
     <<"S", "B", "-", "A", "1">>,
     <<"M", "W", "-", "1">>,
     <<"S", "D", "-", "0", "2">>,
     <<"S", "B", "-", "0", "0", "7">>,
     <<>>}

\* names that hold the exact ID, only the unpadded ID, a longer number that
\* starts like the ID, the ID twice, nothing after the ID, blanks around
\* the hyphens, and no ID at all
DepthSampleNames ==
    {<<"9", "1", "5", "2", "3", "9", "-", "S", "B", "-", "A", "1", "-", "6", ".", "0", "-", "9", ".", "0">>,
     <<"9", "1", "5", "2", "3", "9", "-", "S", "B", "-", "A", "0", "1", "-", "6", ".", "0", "-", "9", ".", "0">>,
     <<"S", "B", "-", "A", "1", "-", "2", ".", "5", "-", "6">>,
     <<"S", "B", "-", "A", "1">>,
     <<"S", "B", "-", "A", "1", "-", "-">>,
     <<"M", "W", "-", "1", "-", "1", "0", ".", "0">>,
     <<"M", "W", "-", "1", "0", "-", "2", "-", "4">>,
     <<"9", "1", "5", "2", "3", "9", "-", "S", "D", "-", "0", "2", "-", "0", "-", "2", ".", "0">>,
     <<"S", "D", "-", "2", "-", "0", "-", "2", ".", "0">>,
     <<"S", "B", "-", "A", "1", " ", "-", " ", "2", ".", "0", " ", "-", " ", "6", ".", "0", " ">>,
     <<"S", "B", "-", "A", "1", "-", ".", "0">>,
     <<"S", "B", "-", "7", "-", "3", ".", "0">>,
     <<"A", "1", "-", "M", "W", "-", "1", "-", "M", "W", "-", "1", "-", "4">>,
     <<"X">>,
     <<>>}

InitDepth ==
    /\ parser = NewParser
    /\ exceedance_configs = <<>>
    /\ settings = DefaultSettings
    /\ session = NoSession
    /\ op = "init"
    /\ args \in [sample_name : DepthSampleNames, location_id : DepthLocationIds]
    /\ ret = <<>>
    /\ locals = <<>>

CallExtractDepthFromSampleName ==
    /\ op = "init"
    /\ op' = "_extract_depth_from_sample_name"
    /\ ret' = [is_none |-> ExtractDepthReturnsNone(args.sample_name, args.location_id),
               depth |-> ExtractDepthFromSampleName(args.sample_name, args.location_id)]
    /\ locals' = [normalized_location_id |-> NormalizeLocationIdForMatching(args.location_id)]
    /\ UNCHANGED <<parser, exceedance_configs, session, args, settings>>

NextDepth == CallExtractDepthFromSampleName

SpecDepth == InitDepth /\ [][NextDepth]_vars

(***************************************************************************)
(* Tag generation and preview for a loaded file.  The file, the service's  *)
(* settings and its exceedance configurations are set up first; then       *)
(* generate_tags or generate_preview_data is called on a selection, and    *)
(* may be called again on the same selection.                              *)
(***************************************************************************)
MW2 == <<"M", "W", "-", "2">>

\* two locations, MW-1 with two dated columns given in descending order;
\* the sample names carry the depths 2-4 and 6-8; Lead has results that
\* are numeric, non-detect and qualified, Zinc lacks one result
TwoWellFile(s12) ==
    <<<<<<"L", "o", "c", "a", "t", "i", "o", "n", " ", "I", "D">>, NaN, NaN, MW2, MW1, MW1>>,
      <<<<"S", "a", "m", "p", "l", "e", " ", "N", "a", "m", "e">>, NaN, NaN, <<"M", "W", "-", "2", "-", "2", "-", "4">>, <<"M", "W", "-", "1", "-", "2", "-", "4">>, <<"M", "W", "-", "1", "-", "6", ".", "0", "-", "8">>>>,
      <<NaN, NaN, NaN, NaN, NaN, NaN>>,
      <<<<"S", "a", "m", "p", "l", "e", " ", "D", "a", "t", "e">>, NaN, NaN, Day1, Day2, Day1>>,
      <<<<"A", "n", "a", "l", "y", "t", "e">>, EPA, DEC, NaN, NaN, NaN>>,
      <<<<"M", "e", "t", "a", "l", "s">>, NaN, NaN, NaN, NaN, NaN>>,
      <<Lead, <<"5", ".", "0">>, s12, <<"7", ".", "2">>, <<"<", " ", "5", ".", "0", " ", "U">>, <<"8", " ", "J">>>>,
      <<Zinc, <<"2">>, NaN, <<"3">>, NaN, <<"1">>>>>>

TagFiles == {TwoWellFile(<<"6">>)}

TagLoads ==
    [file \in TagFiles |->
        [depth \in BOOLEAN |->
            LoadFile([NewParser EXCEPT !.has_sample_depth = depth], file)]]

\* the most date keys in one selection
MaxSelected == 2

\* the date keys the date selector offers for the loaded file
DateKeys(p) ==
    IF p.has_sample_depth
    THEN UNION {{<<"D", "A", "T", "E", ":">> \o loc \o <<":">>
                     \o p.date_depth_combinations[loc][i][1] \o <<":">>
                     \o p.date_depth_combinations[loc][i][2] :
                   i \in 1..Len(p.date_depth_combinations[loc])} :
                loc \in DOMAIN p.date_depth_combinations}
    ELSE UNION {{<<"D", "A", "T", "E", ":">> \o loc \o <<":">> \o p.location_dates[loc][i] :
                   i \in 1..Len(p.location_dates[loc])} :
                loc \in DOMAIN p.location_dates}

\* the lists of at most MaxSelected distinct keys, in every order
Selections(keys) ==
    {sel \in UNION {[1..n -> keys] : n \in 0..MaxSelected} :
        \A i, j \in 1..Len(sel) : sel[i] = sel[j] => i = j}

\* the selected locations with the selected analytes
Picks ==
    {[selected_locations |-> <<MW1>>, selected_analytes |-> <<Lead>>],
     [selected_locations |-> <<MW2, MW1>>, selected_analytes |-> <<Zinc, Lead>>],
     [selected_locations |-> <<MW2, MW1, MW2>>, selected_analytes |-> <<Lead>>]}

DateFormats == {"YYYY-MM-DD", "MMM DD, YYYY"}

GenerateOps == {"generate_tags", "generate_preview_data"}

\* parser = ExcelParser(); parser.has_sample_depth = depth; parser.load_file(file)
TagLoadFile(file, depth) ==
    \E loads \in {TagLoads} :
        /\ parser = NewParser
        /\ parser' = loads[file][depth]
        /\ op' = "load_file"
        /\ args' = <<>>
        /\ ret' = TRUE
        /\ locals' = <<>>
        /\ UNCHANGED <<exceedance_configs, settings, session>>

CallSetShowNonDetectAsNd(enabled) ==
    /\ settings' = [settings EXCEPT !.show_non_detect_as_nd = enabled]
    /\ op' = "set_show_non_detect_as_nd"
    /\ args' = <<>>
    /\ ret' = <<>>
    /\ locals' = <<>>
    /\ UNCHANGED <<parser, exceedance_configs, session>>

CallSetDateFormat(date_format) ==
    /\ settings' = [settings EXCEPT !.date_format = date_format]
    /\ op' = "set_date_format"
    /\ args' = <<>>
    /\ ret' = <<>>
    /\ locals' = <<>>
    /\ UNCHANGED <<parser, exceedance_configs, session>>

\* the generator or preview service built on the parser and, when one is
\* given, the customization service
Self(customization_service) ==
    [parser |-> parser, customization_service |-> customization_service,
     settings |-> settings]

\* the call before this one, when it was a generation on the same selection
Previous ==
    IF op \in GenerateOps THEN [op |-> op, ret |-> ret] ELSE [op |-> "none", ret |-> <<>>]

\* TagGenerator(parser, service).generate_tags(...); service is None when
\* customization_service is FALSE
CallGenerateTags(call) ==
    /\ op \in GenerateOps => call = args
    /\ \E out \in {GenerateTags(Self(call.customization_service), exceedance_configs,
                               call.selected_locations, call.selected_analytes,
                               call.selected_dates)} :
          /\ op' = "generate_tags"
          /\ args' = call
          /\ ret' = out.tags
          /\ exceedance_configs' = out.configs
          /\ locals' = [configs |-> exceedance_configs, previous |-> Previous]
          /\ UNCHANGED <<parser, settings, session>>

\* PreviewService(parser, service).generate_preview_data(...)
CallGeneratePreviewData(call) ==
    /\ op \in GenerateOps => call = args
    /\ \E out \in {GeneratePreviewData(Self(call.customization_service), exceedance_configs,
                                      call.selected_locations, call.selected_analytes,
                                      call.selected_dates)} :
          /\ op' = "generate_preview_data"
          /\ args' = call
          /\ ret' = out.preview_data
          /\ exceedance_configs' = out.configs
          /\ locals' = [configs |-> exceedance_configs, previous |-> Previous]
          /\ UNCHANGED <<parser, settings, session>>

Calls ==
    {[selected_locations |-> pick.selected_locations,
      selected_analytes |-> pick.selected_analytes,
      selected_dates |-> selected_dates,
      customization_service |-> customization_service] :
        pick \in Picks, selected_dates \in Selections(DateKeys(parser)),
        customization_service \in BOOLEAN}

NextTags ==
    \/ \E file \in TagFiles, depth \in BOOLEAN : TagLoadFile(file, depth)
    \/ /\ op \notin GenerateOps
       /\ \/ CallInitializeExceedanceConfigs
          \/ \E name \in StandardsNames, enabled \in BOOLEAN :
                CallSetStandardsEnabled(name, enabled)
          \/ \E enabled \in BOOLEAN : CallSetShowNonDetectAsNd(enabled)
          \/ \E date_format \in DateFormats : CallSetDateFormat(date_format)
    \/ /\ parser # NewParser
       /\ \E call \in Calls : CallGenerateTags(call) \/ CallGeneratePreviewData(call)

SpecTags == Init /\ [][NextTags]_vars

(***************************************************************************)
(* End to end: a grid of one location, one date, one category and one      *)
(* analyte with one standards column is loaded by a fresh parser, and its  *)
(* only cell is put on a tag by a generator with a fresh service.          *)
(***************************************************************************)
\* the largest standard and result, in tenths
MaxTenths == 72

\* the decimal text of a number of tenths: 72 is "7.2"
TenthsText(t) == IntToStr(t \div 10) \o <<".">> \o IntToStr(t % 10)

\* standard s and result v are cells of text, as load_file reads them
ScenarioFile(s, v) ==
    <<<<<<"L", "o", "c", "a", "t", "i", "o", "n", " ", "I", "D">>, NaN, MW1>>,
      <<<<"S", "a", "m", "p", "l", "e", " ", "N", "a", "m", "e">>, NaN, NaN>>,
      <<NaN, NaN, NaN>>,
      <<<<"S", "a", "m", "p", "l", "e", " ", "D", "a", "t", "e">>, NaN, Day1>>,
      <<<<"A", "n", "a", "l", "y", "t", "e">>, EPA, NaN>>,
      <<<<"M", "e", "t", "a", "l", "s">>, NaN, NaN>>,
      <<Lead, s, v>>>>

InitScenario ==
    /\ parser = NewParser
    /\ exceedance_configs = <<>>
    /\ settings = DefaultSettings
    /\ session = NoSession
    /\ op = "init"
    /\ args \in [s : 0..MaxTenths, v : 0..MaxTenths]
    /\ ret = <<>>
    /\ locals = <<>>

\* parser.load_file(file)
ScenarioLoadFile ==
    /\ op = "init"
    /\ parser' = LoadFile(parser, ScenarioFile(TenthsText(args.s), TenthsText(args.v)))
    /\ op' = "load_file"
    /\ ret' = TRUE
    /\ UNCHANGED <<exceedance_configs, settings, session, args, locals>>

\* customization_service.initialize_exceedance_configs(parser), as the
\* upload flow calls it after a load
ScenarioInitializeConfigs ==
    /\ op = "load_file"
    /\ exceedance_configs' = InitializeExceedanceConfigs(exceedance_configs, parser)
    /\ op' = "initialize_exceedance_configs"
    /\ UNCHANGED <<parser, settings, session, args, ret, locals>>

\* TagGenerator(parser, service).generate_tags for the only location,
\* analyte and date
ScenarioGenerateTags ==
    /\ op \in {"load_file", "initialize_exceedance_configs"}
    /\ \E out \in {GenerateTags(Self(TRUE), exceedance_configs, <<MW1>>, <<Lead>>,
                               <<<<"D", "A", "T", "E", ":">> \o MW1 \o <<":">> \o Day1>>)} :
          /\ op' = "generate_tags"
          /\ ret' = out.tags
          /\ exceedance_configs' = out.configs
          /\ locals' = [configs |-> exceedance_configs]
          /\ UNCHANGED <<parser, settings, session, args>>

NextScenario == ScenarioLoadFile \/ ScenarioInitializeConfigs \/ ScenarioGenerateTags

SpecScenario == InitScenario /\ [][NextScenario]_vars

(***************************************************************************)
(* process_non_detect_value called on a value, for a service with the      *)
(* toggle on or off                                                        *)
(***************************************************************************)
\* values built of blanks, "<", a number and the qualifiers U and J
NonDetectValues ==
    {head \o body \o tail :
        head \in {<<>>, <<" ">>, <<"<">>, <<" ", "<">>, <<"<", " ">>, <<"U">>},
        body \in {<<>>, <<"5", ".", "0">>, <<"5", ".", "0", " ">>},
        tail \in {<<>>, <<"U">>, <<"U", " ">>, <<"J">>, <<"U", "J">>, <<"<">>}}

InitNonDetect ==
    /\ parser = NewParser
    /\ exceedance_configs = <<>>
    /\ \E enabled \in BOOLEAN :
          settings = [DefaultSettings EXCEPT !.show_non_detect_as_nd = enabled]
    /\ session = NoSession
    /\ op = "init"
    /\ args \in NonDetectValues
    /\ ret = <<>>
    /\ locals = <<>>

CallProcessNonDetectValue ==
    /\ op = "init"
    /\ op' = "process_non_detect_value"
    /\ ret' = [value |-> ProcessNonDetectValue(settings, args)]
    /\ UNCHANGED <<parser, exceedance_configs, settings, session, args, locals>>

NextNonDetect == CallProcessNonDetectValue

SpecNonDetect == InitNonDetect /\ [][NextNonDetect]_vars

(***************************************************************************)
(* Properties of check_exceedance.  They are stated over the call that was *)
(* made last: its arguments, the settings on entry (locals.all_configs),   *)
(* the parser it was given and the value it returned.                      *)
(***************************************************************************)
Checked == op = "check_exceedance"

\* the names whose stored configuration has enabled = true on entry
StoredEnabled == {n \in ConfigNames(locals.all_configs) : ConfigOf(locals.all_configs, n).enabled}

\* the names whose stored configuration has enabled = false on entry
StoredDisabled == {n \in ConfigNames(locals.all_configs) : ~ConfigOf(locals.all_configs, n).enabled}

ModelColumns == {parser.standards_columns[i] : i \in 1..Len(parser.standards_columns)}

StandardFor(n) == GetStandardsValue(parser, args.analyte_name, n)

\* the names of a set that have a standard for the analyte which the value exceeds strictly
ExceededAmong(names) == {n \in names : StandardFor(n).ok /\ NumGreater(args.value, StandardFor(n))}

\* C1: a standards column whose configuration has enabled = false is never
\* returned as the exceeded column, whatever the other flags are.
C1_DisabledNeverReported ==
    (Checked /\ ret.is_exceeded) => ret.col \notin StoredDisabled

\* C2: when at least one configuration is enabled, is_exceeded holds exactly
\* when some enabled column with a standard for the analyte has
\* value > standard (strictly), and otherwise the result is (False, None).
C2_ExceededIffEnabledStrictlyBelow ==
    (Checked /\ StoredEnabled # {}) =>
        /\ ret.is_exceeded <=> ExceededAmong(StoredEnabled) # {}
        /\ ExceededAmong(StoredEnabled) = {} => ret = [is_exceeded |-> FALSE, col |-> None]

\* a call with an enabled column whose standard equals the value and no
\* column exceeded, and the answer (False, None)
C2_Witness ==
    /\ Checked
    /\ \E n \in StoredEnabled : StandardFor(n).ok /\ NumEqual(StandardFor(n), args.value)
    /\ ExceededAmong(StoredEnabled) = {}
    /\ ~ret.is_exceeded

\* the columns the call evaluates: the enabled ones, or every column of the
\* model when none is enabled
Evaluated == IF StoredEnabled # {} THEN StoredEnabled ELSE ModelColumns

TopPositions ==
    {i \in 1..Len(parser.standards_columns) :
        /\ parser.standards_columns[i] \in ExceededAmong(Evaluated)
        /\ \A n \in ExceededAmong(Evaluated) :
              ~NumGreater(StandardFor(n), StandardFor(parser.standards_columns[i]))}

\* C4: among the exceeded columns that share the highest exceeded standard
\* value, the one last in the parser's column order is returned, whatever
\* the order in which the configurations were created.
C4_TieGoesToLastColumn ==
    (Checked /\ ret.is_exceeded) =>
        \E i \in TopPositions :
            /\ ret.col = parser.standards_columns[i]
            /\ \A j \in TopPositions : j <= i

\* two different columns tie at the top, their configurations were created
\* in the opposite order, and the later column is returned
C4_Witness ==
    /\ Checked /\ ret.is_exceeded
    /\ Len(parser.standards_columns) = 2
    /\ parser.standards_columns[1] # parser.standards_columns[2]
    /\ TopPositions = {1, 2}
    /\ Len(locals.all_configs) = 2
    /\ locals.all_configs[1].name = parser.standards_columns[2]
    /\ locals.all_configs[1].enabled /\ locals.all_configs[2].enabled
    /\ ret.col = parser.standards_columns[2]

\* the entries of a settings dict: key, enabled flag and text color
Entries(configs) == {configs[i] : i \in 1..Len(configs)}

\* C5: a call made while no configuration is enabled leaves the stored
\* configuration as it was: same keys, same enabled flag and text color.
C5_FallbackLeavesConfigs ==
    [][(op' = "check_exceedance" /\ EnabledNames(exceedance_configs) = <<>>)
          => Entries(exceedance_configs') = Entries(exceedance_configs)]_vars

\* C6: in the session, whenever the loaded model has standards columns and
\* none of them is enabled, the check evaluates the value against all of the
\* model's columns: an exceedance is reported exactly when the value is
\* above the standard of some column of the model.
C6_FallbackCoversModelColumns ==
    (Checked /\ ModelColumns # {} /\ ModelColumns \cap StoredEnabled = {}) =>
        (ret.is_exceeded <=> ExceededAmong(ModelColumns) # {})

(***************************************************************************)
(* Properties of _resolve_duplicate_values, over the call made last        *)
(***************************************************************************)
Resolved == op = "_resolve_duplicate_values"

\* the numeric rank of a value: the trimmed text with at most one trailing
\* qualifier removed, read as a number; minus infinity when it is no number
NumericRank(value) ==
    LET t == Strip(value)
        parsed == ParseFloat(IF t # <<>> /\ \E q \in 1..Len(qualifiers) : t[Len(t)] = qualifiers[q]
                             THEN DropLast(t)
                             ELSE t)
    IN  IF parsed.ok /\ ~parsed.nan THEN parsed ELSE Infinity(0 - 1)

\* C7: the empty list gives the empty string, a one-element list its
\* element, and a longer list the original string of the first entry whose
\* numeric rank no other entry exceeds (entries that are no number rank
\* minus infinity).
C7_ResolveReturnsFirstHighest ==
    Resolved =>
        /\ args = <<>> => ret = <<>>
        /\ Len(args) = 1 => ret = args[1]
        /\ Len(args) >= 2 =>
              \E i \in 1..Len(args) :
                  /\ ret = args[i]
                  /\ \A j \in 1..Len(args) : ~NumGreater(NumericRank(args[j]), NumericRank(args[i]))
                  /\ \A j \in 1..(i - 1) : NumGreater(NumericRank(args[i]), NumericRank(args[j]))

\* C8: the text that is parsed is the trimmed value with at most one
\* trailing character removed.
C8_AtMostOneQualifierRemoved ==
    (Resolved /\ Len(args) >= 2) =>
        \A i \in 1..Len(args) :
            Len(Strip(args[i])) - Len(locals.numeric_parts[i]) <= 1

\* C9: for two strings whose numeric ranks differ, the result does not
\* depend on the order of the two.
C9_ResolveCommutes ==
    (/\ Resolved /\ Len(args) = 2
     /\ \/ NumGreater(NumericRank(args[1]), NumericRank(args[2]))
        \/ NumGreater(NumericRank(args[2]), NumericRank(args[1])))
    => ret = ResolveDuplicateValues(<<args[2], args[1]>>)

(***************************************************************************)
(* Properties of result storage in depth-qualified mode, over the parser   *)
(* after load_file                                                         *)
(***************************************************************************)
LoadedWithDepth == op = "load_file" /\ ret = TRUE /\ parser.has_sample_depth

\* the triples carried by two or more dated columns
SharedTriples(p) ==
    {ColumnTriple(p, c) :
        c \in {d \in DatedCols(p) :
                 /\ ColumnDepth(p, d) # None
                 /\ \E e \in DatedCols(p) : e # d /\ ColumnTriple(p, e) = ColumnTriple(p, d)}}

\* the rows of the grid that name a parsed analyte
AnalyteRows(p) ==
    {row_idx \in FirstAnalyteRow..(NRows(p.data) - 1) :
        /\ HasText(At(p.data, row_idx, 0))
        /\ \E i \in 1..Len(p.analytes) : p.analytes[i].name = Strip(At(p.data, row_idx, 0))}

\* the trimmed non-empty cells of a row in the columns of one triple, left to right
RECURSIVE CellsFrom(_, _, _, _)
CellsFrom(p, row_idx, triple, col_idx) ==
    IF col_idx > NCols(p.data) - 1 THEN <<>>
    ELSE (IF /\ col_idx \in DatedCols(p)
             /\ ColumnTriple(p, col_idx) = triple
             /\ NotNa(At(p.data, row_idx, col_idx))
          THEN <<Strip(At(p.data, row_idx, col_idx))>>
          ELSE <<>>) \o CellsFrom(p, row_idx, triple, col_idx + 1)

CellsOfTriple(p, row_idx, triple) == CellsFrom(p, row_idx, triple, p.first_location_col)

\* C10: in depth mode, the non-empty cells of all columns that share a
\* (location, date, depth) triple are, in column order, the list stored under
\* (location, date, depth, analyte), and none of them is stored under the
\* key without depth.
C10_SharedTripleSharesOneList ==
    LoadedWithDepth =>
        \A triple \in SharedTriples(parser), row_idx \in AnalyteRows(parser) :
            LET analyte_name == Strip(At(parser.data, row_idx, 0))
                key == <<triple[1], triple[2], triple[3], analyte_name>>
                plain == <<triple[1], triple[2], analyte_name>>
                cells == CellsOfTriple(parser, row_idx, triple)
            IN  /\ cells # <<>> =>
                      key \in DOMAIN parser.result_data /\ parser.result_data[key] = cells
                /\ plain \in DOMAIN parser.result_data =>
                      parser.result_data[plain] =
                          CellsOfTriple(parser, row_idx, <<triple[1], triple[2], None>>)

(***************************************************************************)
(* Properties of _extract_depth_from_sample_name, stated over the call     *)
(* that was just made: args is the pair it was called with, ret its result.*)
(***************************************************************************)
Extracted == op = "_extract_depth_from_sample_name"

\* a segment without its trailing ".0"
WithoutPointZero(segment) ==
    IF Len(segment) >= 2 /\ segment[Len(segment) - 1] = "." /\ segment[Len(segment)] = "0"
    THEN SubSeq(segment, 1, Len(segment) - 2)
    ELSE segment

\* the form of the ID that is looked for: the exact ID when the name holds
\* it, otherwise the ID with the leading zeros of its digit runs stripped
MatchedForm(sample_name, location_id) ==
    IF Find(sample_name, location_id) # 0 - 1 THEN location_id
    ELSE NormalizeLocationIdForMatching(location_id)

\* the text that follows the matched form, surrounding hyphens and blanks
\* removed
TextAfter(sample_name, location_id) ==
    LET form == MatchedForm(sample_name, location_id)
    IN  Strip(StripHyphens(SubSeq(sample_name,
            Find(sample_name, form) + Len(form) + 1, Len(sample_name))))

\* the hyphen-delimited segments of a text, each without blanks around it
\* and without a trailing ".0"
TrimmedSegments(text) ==
    LET segments == SplitHyphen(text)
    IN  [i \in 1..Len(segments) |-> WithoutPointZero(Strip(segments[i]))]

SpecExampleName == <<"9", "1", "5", "2", "3", "9", "-", "S", "B", "-", "A", "1", "-", "6", ".", "0", "-", "9", ".", "0">>

SpecExampleId == <<"S", "B", "-", "A", "0", "1">>

\* C11: the call returns None when the name or the ID is empty, when the
\* name holds neither the exact ID nor the ID with the leading zeros of
\* its digit runs stripped, and when nothing follows the matched ID once
\* surrounding hyphens are removed; otherwise it returns the text after the
\* matched ID, surrounding hyphens removed, with a trailing ".0" trimmed
\* from each hyphen-delimited segment.  "SB-A01" is looked for as "SB-A1",
\* so "915239-SB-A1-6.0-9.0" gives "6-9", and "2.5-6" is returned as it is.
C11_DepthIsTrimmedTextAfterId ==
    Extracted =>
        LET sample_name == args.sample_name
            location_id == args.location_id
            form == MatchedForm(sample_name, location_id)
        IN  /\ IF \/ sample_name = <<>>
                  \/ location_id = <<>>
                  \/ Find(sample_name, form) = 0 - 1
                  \/ TextAfter(sample_name, location_id) = <<>>
               THEN ret.is_none
               ELSE /\ ~ret.is_none
                    /\ ret.depth = JoinHyphen(TrimmedSegments(TextAfter(sample_name, location_id)))
            /\ location_id = SpecExampleId =>
                  locals.normalized_location_id = <<"S", "B", "-", "A", "1">>
            /\ (sample_name = SpecExampleName /\ location_id = SpecExampleId) =>
                  ret.depth = <<"6", "-", "9">>
            /\ (sample_name = <<"S", "B", "-", "A", "1", "-", "2", ".", "5", "-", "6">> /\ location_id = SpecExampleId) =>
                  ret.depth = <<"2", ".", "5", "-", "6">>

\* the spec's example: the padded ID is absent, the unpadded one is found,
\* and both segments lose their ".0"
C11_Witness ==
    /\ Extracted
    /\ args.sample_name = SpecExampleName
    /\ args.location_id = SpecExampleId
    /\ Find(args.sample_name, args.location_id) = 0 - 1
    /\ ~ret.is_none
    /\ ret.depth = <<"6", "-", "9">>

(***************************************************************************)
(* Properties of generate_tags and generate_preview_data, stated over the  *)
(* call that was just made: args is the selection and whether a service    *)
(* was given, locals.configs the exceedance configurations on entry,       *)
(* locals.previous the generation call made just before on the same        *)
(* selection, ret the tags or previews returned.                           *)
(***************************************************************************)
Generated == op = "generate_tags"

Previewed == op = "generate_preview_data"

\* what the claims compare of a list of tags or previews: the locations in
\* order and, for each, the cells of its rows with their flags and labels
CellsOfRows(rows) ==
    [r \in 1..Len(rows) |->
        [values |-> rows[r].values, is_highlighted |-> rows[r].is_highlighted,
         exceeded_standards_cols |-> rows[r].exceeded_standards_cols]]

TagsShown(tags) ==
    [t \in 1..Len(tags) |->
        [location_id |-> tags[t].location_id, rows |-> CellsOfRows(GetAllRows(tags[t]))]]

PreviewShown(preview_data) ==
    [t \in 1..Len(preview_data) |->
        [location_id |-> preview_data[t].location_id,
         rows |-> CellsOfRows(preview_data[t].rows)]]

\* the other function called on the state the call was made in
TagsOnEntry ==
    GenerateTags(Self(args.customization_service), locals.configs, args.selected_locations,
                 args.selected_analytes, args.selected_dates).tags

PreviewOnEntry ==
    GeneratePreviewData(Self(args.customization_service), locals.configs,
                        args.selected_locations, args.selected_analytes,
                        args.selected_dates).preview_data

\* C12: on the same parsed model, selection and settings, the preview shows
\* the locations, rows, cell values, highlight flags and exceeded-standard
\* labels of the generated tags, in the same order, whatever the order of
\* the selected date keys.
C12_PreviewShowsTheTags ==
    /\ Generated => TagsShown(ret) = PreviewShown(PreviewOnEntry)
    /\ Previewed => PreviewShown(ret) = TagsShown(TagsOnEntry)

\* C13: a second generate_tags call on the same parser, service and
\* selection returns the tags of the first, also when the first call was
\* made before any exceedance configuration existed.
C13_SecondCallSameTags ==
    (Generated /\ locals.previous.op = "generate_tags") => ret = locals.previous.ret

\* the analyte row of the only tag of the scenario: the rows of a column
\* tag are the header row, the date row and the analyte rows
ScenarioRow == GetAllRows(ret[1])[3]

\* C14: for a grid with one location, one date, one category and one
\* analyte with standard s and numeric result v, loading the grid and
\* generating the tag of that selection gives one tag whose analyte row is
\* [analyte name, v]; its value cell is highlighted exactly when v > s and,
\* when highlighted, is labelled with the header of the standards column,
\* otherwise it has no label.  With EPA = 5.0 and "7.2" the row is
\* ["Lead", "7.2"], highlighted, labelled "EPA".
C14_ScenarioRowHighlightsAboveStandard ==
    Generated /\ "v" \in DOMAIN args =>
        /\ Len(ret) = 1
        /\ Len(GetAllRows(ret[1])) = 3
        /\ ScenarioRow.values = <<Lead, TenthsText(args.v)>>
        /\ ScenarioRow.is_highlighted = <<FALSE, args.v > args.s>>
        /\ ScenarioRow.exceeded_standards_cols =
               <<None, IF args.v > args.s THEN EPA ELSE None>>
        /\ (args.s = 50 /\ args.v = 72) =>
               /\ ScenarioRow.values = <<Lead, <<"7", ".", "2">>>>
               /\ ScenarioRow.is_highlighted[2]
               /\ ScenarioRow.exceeded_standards_cols[2] = EPA

\* the scenario of the specification was run
C14_Witness ==
    /\ Generated
    /\ "v" \in DOMAIN args
    /\ args.s = 50 /\ args.v = 72
    /\ ScenarioRow.values = <<Lead, <<"7", ".", "2">>>>
    /\ ScenarioRow.is_highlighted[2]
    /\ ScenarioRow.exceeded_standards_cols[2] = EPA

(***************************************************************************)
(* Properties of process_non_detect_value: args is the value it was called *)
(* with, ret.value its result.                                             *)
(***************************************************************************)
Processed == op = "process_non_detect_value"

\* the positions of the characters of a value that are not blanks
Inked(value) == {i \in 1..Len(value) : value[i] # " "}

\* the trimmed value starts with "<" and ends with "U"
LooksNonDetect(value) ==
    /\ Inked(value) # {}
    /\ \E first, last \in Inked(value) :
          /\ \A i \in Inked(value) : first <= i /\ i <= last
          /\ value[first] = "<"
          /\ value[last] = "U"

\* C15: with the toggle enabled the result is "ND" exactly when the trimmed
\* value starts with "<" and ends with "U", and the value itself otherwise;
\* with the toggle disabled the result is the value itself.  "< 5.0 U"
\* becomes "ND", "5.0 J" stays.
C15_NonDetectBecomesND ==
    Processed =>
        /\ ret.value = IF settings.show_non_detect_as_nd /\ LooksNonDetect(args)
                       THEN <<"N", "D">> ELSE args
        /\ (settings.show_non_detect_as_nd /\ args = <<"<", " ", "5", ".", "0", " ", "U">>) => ret.value = <<"N", "D">>
        /\ args = <<"5", ".", "0", " ", "J">> => ret.value = <<"5", ".", "0", " ", "J">>

\* the toggle is on and "< 5.0 U" was rewritten
C15_Witness ==
    /\ Processed
    /\ settings.show_non_detect_as_nd
    /\ args = <<"<", " ", "5", ".", "0", " ", "U">>
    /\ ret.value = <<"N", "D">>

\* the label rows in front of the analyte rows of a block of the depth layout
LabelRows(pair) == IF pair[2] # None THEN 3 ELSE 2

\* the number of rows in front of the k-th block of the depth layout
RECURSIVE RowsBefore(_, _)
RowsBefore(pairs, k) ==
    IF k = 1 THEN 0
    ELSE RowsBefore(pairs, k - 1) + LabelRows(pairs[k - 1]) + Len(args.selected_analytes)

\* the result cells of a tag, each with the selected location, date, depth
\* and analyte it stands for: in the column layout the cell of the a-th
\* analyte row under the d-th date, in the depth layout the value cell of
\* the a-th analyte row of the k-th block
ResultCells(tag) ==
    LET rows == GetAllRows(tag)
        pairs == DateDepthPairs(tag.dates)
        Cell(date, depth, a, r, c) ==
            [location_id |-> tag.location_id, date |-> date, depth |-> depth,
             analyte |-> args.selected_analytes[a], value |-> rows[r].values[c],
             is_highlighted |-> rows[r].is_highlighted[c],
             exceeded_standards_col |-> rows[r].exceeded_standards_cols[c]]
    IN  IF parser.has_sample_depth
        THEN {Cell(pairs[k][1], pairs[k][2], a,
                   RowsBefore(pairs, k) + LabelRows(pairs[k]) + a, 2) :
                k \in 1..Len(pairs), a \in 1..Len(args.selected_analytes)}
        ELSE {Cell(tag.dates[d], None, a, 2 + a, d + 1) :
                d \in 1..Len(tag.dates), a \in 1..Len(args.selected_analytes)}

AllResultCells == UNION {ResultCells(ret[t]) : t \in 1..Len(ret)}

\* the key under which the parser stores the results of a cell
StoredKey(cell) ==
    IF parser.has_sample_depth /\ cell.depth # None
    THEN <<cell.location_id, cell.date, cell.depth, cell.analyte>>
    ELSE <<cell.location_id, cell.date, cell.analyte>>

HasStoredResult(cell) == StoredKey(cell) \in DOMAIN parser.result_data

\* C16: in both layouts, the cell of a selected location, date (and depth)
\* and analyte that has no stored result has the empty string as value, is
\* not highlighted and has no exceeded-standard label.
C16_MissingResultGivesEmptyCell ==
    Generated /\ "selected_dates" \in DOMAIN args =>
        \A cell \in AllResultCells :
            ~HasStoredResult(cell) =>
                /\ cell.value = <<>>
                /\ ~cell.is_highlighted
                /\ cell.exceeded_standards_col = None

\* a tag of the depth layout with a cell that has no stored result, next to
\* a cell of the same tag list that has one
C16_Witness ==
    /\ Generated
    /\ "selected_dates" \in DOMAIN args
    /\ parser.has_sample_depth
    /\ args.customization_service
    /\ \E cell \in AllResultCells : ~HasStoredResult(cell) /\ cell.value = <<>>
    /\ \E cell \in AllResultCells : HasStoredResult(cell) /\ cell.value # <<>>

\* the string a cell with a stored result shows: the resolved value, or "ND"
\* when the service rewrites non-detects
ShownString(cell) ==
    LET resolved == ResolveDuplicateValues(parser.result_data[StoredKey(cell)])
    IN  IF /\ args.customization_service
           /\ settings.show_non_detect_as_nd
           /\ LooksNonDetect(resolved)
        THEN <<"N", "D">> ELSE resolved

\* C17: a result whose string float() rejects does not make generation
\* fail: its cell is not highlighted, has no exceeded-standard label, and
\* holds the string as its value.
C17_UnparsableValueIsShownPlain ==
    Generated /\ "selected_dates" \in DOMAIN args =>
        \A cell \in AllResultCells :
            (HasStoredResult(cell) /\ ~ParseFloat(ShownString(cell)).ok) =>
                /\ cell.value = ShownString(cell)
                /\ ~cell.is_highlighted
                /\ cell.exceeded_standards_col = None

\* a qualified result above its standards was placed, next to a numeric
\* result that is highlighted
C17_Witness ==
    /\ Generated
    /\ "selected_dates" \in DOMAIN args
    /\ args.customization_service
    /\ \E cell \in AllResultCells :
          /\ HasStoredResult(cell)
          /\ cell.value = <<"8", " ", "J">>
          /\ ~cell.is_highlighted
    /\ \E cell \in AllResultCells : cell.is_highlighted

(***************************************************************************)
(* Category rows: files whose rows below the analyte header are drawn     *)
(* from category rows, analyte rows that repeat a category's name, blank  *)
(* rows and the Notes: row.                                                *)
(***************************************************************************)
Volatiles == <<"V", "o", "l", "a", "t", "i", "l", "e", "s">>

Metals == <<"M", "e", "t", "a", "l", "s">>

BodyRowKinds ==
    {<<Volatiles, NaN, NaN, NaN>>,
     <<Metals, NaN, NaN, NaN>>,
     <<<<" ", "V", "o", "l", "a", "t", "i", "l", "e", "s", " ">>, NaN, <<" ">>, NaN>>,
     <<Volatiles, <<"5">>, <<"7">>, NaN>>,
     <<Volatiles, <<"5">>, NaN, NaN>>,
     <<Lead, NaN, <<"3">>, <<"8", " ", "J">>>>,
     <<NaN, NaN, NaN, NaN>>,
     <<<<"N", "o", "t", "e", "s", ":">>, NaN, NaN, NaN>>}

\* the number of rows below the analyte header
MaxBodyRows == 3

CategoryFile(body) ==
    <<<<<<"L", "o", "c", "a", "t", "i", "o", "n", " ", "I", "D">>, NaN, MW1, MW1>>,
      <<<<"S", "a", "m", "p", "l", "e", " ", "N", "a", "m", "e">>, NaN, NaN, NaN>>,
      <<NaN, NaN, NaN, NaN>>,
      <<<<"S", "a", "m", "p", "l", "e", " ", "D", "a", "t", "e">>, NaN, Day1, Day2>>,
      <<<<"A", "n", "a", "l", "y", "t", "e">>, EPA, NaN, NaN>>>> \o body

CategoryFiles == {CategoryFile(body) : body \in [1..MaxBodyRows -> BodyRowKinds]}

\* parser = ExcelParser(), and the file to load
InitCategories ==
    /\ parser = NewParser
    /\ exceedance_configs = <<>>
    /\ settings = DefaultSettings
    /\ session = NoSession
    /\ op = "init"
    /\ args \in CategoryFiles
    /\ ret = <<>>
    /\ locals = <<>>

NextCategories == CallLoadFileOnParser

SpecCategories == InitCategories /\ [][NextCategories]_vars

\* a cell without content
Blank(cell) == ~NotNa(cell) \/ Strip(cell) = <<>>

\* the rows from row 5 up to the Notes: row
BodyRows(file) ==
    {r \in FirstAnalyteRow..(NRows(file) - 1) :
        \A q \in FirstAnalyteRow..r : Blank(At(file, q, 0)) \/ Strip(At(file, q, 0)) # <<"N", "o", "t", "e", "s", ":">>}

\* the rows with a name in column 0 and nothing in any other column
NameOnlyRows(file) ==
    {r \in BodyRows(file) :
        /\ ~Blank(At(file, r, 0))
        /\ \A c \in 1..(NCols(file) - 1) : Blank(At(file, r, c))}

\* the rows with a name in column 0 and something in another column, below a
\* name-only row
NamedValueRows(file) ==
    {r \in BodyRows(file) :
        /\ ~Blank(At(file, r, 0))
        /\ \E c \in 1..(NCols(file) - 1) : ~Blank(At(file, r, c))
        /\ \E q \in NameOnlyRows(file) : q < r}

\* the parser after loading the first n rows of the file
LoadedRows(file, n) ==
    LoadFile([NewParser EXCEPT !.has_sample_depth = parser.has_sample_depth],
             SubSeq(file, 1, n))

\* C18: a row from row 5 on with a name in column 0 and every other column
\* empty is recorded as a category, the next one in order, and as nothing
\* else: loading the file up to and including the row adds one category
\* without analytes and leaves the analytes, thresholds, standards and
\* results as they were without the row; the file's analyte entries are
\* those of its other named rows, also when one of them repeats the name.
C18_NameOnlyRowIsCategory ==
    (op = "load_file" /\ args \in CategoryFiles /\ ret = TRUE) =>
        /\ \A r \in NameOnlyRows(args) :
              LET k == Cardinality({q \in NameOnlyRows(args) : q <= r})
                  before == LoadedRows(args, r)
                  after == LoadedRows(args, r + 1)
              IN  /\ Len(parser.categories) >= k
                  /\ parser.categories[k].name = Strip(At(args, r, 0))
                  /\ after.categories =
                        Append(before.categories,
                               [name |-> Strip(At(args, r, 0)), analytes |-> <<>>])
                  /\ after.analytes = before.analytes
                  /\ after.analyte_thresholds = before.analyte_thresholds
                  /\ after.analyte_standards = before.analyte_standards
                  /\ after.result_data = before.result_data
        /\ Len(parser.analytes) = Cardinality(NamedValueRows(args))
        /\ \A i \in 1..Len(parser.analytes) :
              \E r \in NamedValueRows(args) :
                  /\ parser.analytes[i].name = Strip(At(args, r, 0))
                  /\ i = Cardinality({q \in NamedValueRows(args) : q <= r})

\* the category Volatiles, then the category Metals with an analyte named
\* Volatiles that has a result
C18_Witness ==
    /\ op = "load_file"
    /\ args \in CategoryFiles
    /\ ret = TRUE
    /\ Len(parser.categories) = 2
    /\ parser.categories[1] = [name |-> Volatiles, analytes |-> <<>>]
    /\ parser.categories[2].name = Metals
    /\ Len(parser.analytes) = 1
    /\ parser.analytes[1].name = Volatiles
    /\ parser.analytes[1].category = Metals
    /\ \E key \in DOMAIN parser.result_data : key[Len(key)] = Volatiles

(***************************************************************************)
(* Loads that fail: the standards files cut down to their first rows and  *)
(* columns, and the file no reader accepts.                                *)
(***************************************************************************)
\* the first rows and columns of a file
Truncated(file, rows, cols) == [r \in 1..rows |-> SubSeq(file[r], 1, cols)]

WholeFiles ==
    {StdFile(EPA, DEC, s11, s12, <<"2">>, <<"N", "A">>) :
        s11 \in {NaN, <<"1">>}, s12 \in {NaN, <<"2">>}}

TruncatedFiles ==
    UNION {{Truncated(file, rows, cols) :
                rows \in 1..NRows(file), cols \in 1..NCols(file)} : file \in WholeFiles}
    \cup {Unreadable}

\* parser = ExcelParser(); parser.has_sample_depth = depth, and the file to load
InitTruncated ==
    /\ \E depth \in BOOLEAN : parser = [NewParser EXCEPT !.has_sample_depth = depth]
    /\ exceedance_configs = <<>>
    /\ settings = DefaultSettings
    /\ session = NoSession
    /\ op = "init"
    /\ args \in TruncatedFiles
    /\ ret = <<>>
    /\ locals = <<>>

NextTruncated == CallLoadFileOnParser

SpecTruncated == InitTruncated /\ [][NextTruncated]_vars

\* C19: after a load_file that returned False the accessors get_locations,
\* get_categories, get_dates_by_location, get_standards_columns and
\* get_result_value return nothing of the file.
C19_FailedLoadExposesNothing ==
    (op = "load_file" /\ args \in TruncatedFiles /\ ret = FALSE) =>
        /\ GetLocations(parser) = <<>>
        /\ GetCategories(parser) = <<>>
        /\ \A location_id \in {MW1} : GetDatesByLocation(parser, location_id) = <<>>
        /\ GetStandardsColumns(parser) = <<>>
        /\ \A date \in {Day1, Day2}, analyte \in AnalyteNames :
              ~GetResultValue(parser, MW1, date, analyte, None).found

\* a run of render_file_upload that re-parses the loaded file for a toggled
\* checkbox, with the uploader still showing that file, and whose re-parse
\* fails: the file cannot be saved or load_file returns False
FailedReparse(has_sample_depth, uploaded_file, saved) ==
    /\ has_sample_depth # session.has_sample_depth
    /\ session.file_loaded
    /\ session.uploaded_file # NoFile
    /\ uploaded_file = session.uploaded_file
    /\ ~saved \/ ~FreshLoad[session.uploaded_file][has_sample_depth].ok

\* a run of render_file_upload that loads a new file and whose load fails
FailedUpload(has_sample_depth, uploaded_file, saved) ==
    /\ uploaded_file \in SessionFiles
    /\ session.uploaded_file # uploaded_file
    /\ ~saved \/ ~FreshLoad[uploaded_file][has_sample_depth].ok

\* C20: after a run of render_file_upload in which the load of a new file or
\* the re-parse for the toggled sample-depth checkbox failed, the session
\* holds no parser and file_loaded is False.
C20_FailedLoadDiscardsModel ==
    [][\A has_sample_depth \in BOOLEAN, uploaded_file \in SessionFiles, saved \in BOOLEAN :
          (/\ RenderFileUpload(has_sample_depth, uploaded_file, saved)
           /\ \/ FailedReparse(has_sample_depth, uploaded_file, saved)
              \/ FailedUpload(has_sample_depth, uploaded_file, saved))
          => (~session'.parser_set /\ ~session'.file_loaded)]_vars

\* the same for the load of a new file alone
UploadDiscardsModel ==
    [][\A has_sample_depth \in BOOLEAN, uploaded_file \in SessionFiles, saved \in BOOLEAN :
          (/\ RenderFileUpload(has_sample_depth, uploaded_file, saved)
           /\ FailedUpload(has_sample_depth, uploaded_file, saved))
          => (~session'.parser_set /\ ~session'.file_loaded)]_vars

\* a selection key that names the location
NamesLocation(key, location_id) ==
    LET prefix == <<"D", "A", "T", "E", ":">> \o location_id \o <<":">>
    IN  Len(key) >= Len(prefix) /\ SubSeq(key, 1, Len(prefix)) = prefix

\* the selected locations that a selection key names
NamedLocations ==
    {args.selected_locations[i] : i \in 1..Len(args.selected_locations)}
    \cap {location_id \in {MW1, MW2} :
             \E k \in 1..Len(args.selected_dates) :
                 NamesLocation(args.selected_dates[k], location_id)}

\* the place of a location in selected_locations
FirstIndex(list, x) == CHOOSE i \in 1..Len(list) : list[i] = x /\ \A j \in 1..(i - 1) : list[j] # x

\* C21: generate_tags returns one tag for each distinct selected location
\* that a selection key names and no other tag, in the order of
\* selected_locations.
C21_OneTagPerNamedLocationInOrder ==
    (Generated /\ "selected_dates" \in DOMAIN args) =>
        /\ {ret[t].location_id : t \in 1..Len(ret)} = NamedLocations
        /\ Len(ret) = Cardinality(NamedLocations)
        /\ \A t1, t2 \in 1..Len(ret) :
              t1 < t2 => FirstIndex(args.selected_locations, ret[t1].location_id)
                            < FirstIndex(args.selected_locations, ret[t2].location_id)

\* MW-2 is selected before MW-1 and once more after it, and both have a key
C21_Witness ==
    /\ Generated
    /\ "selected_dates" \in DOMAIN args
    /\ args.selected_locations = <<MW2, MW1, MW2>>
    /\ Len(ret) = 2
    /\ ret[1].location_id = MW2
    /\ ret[2].location_id = MW1

(***************************************************************************)
(* The depth layout: a grid of one location sampled at three depths on one *)
(* date and at one depth on a later date is loaded with                    *)
(* has_sample_depth set, and tags are generated for lists of its keys.     *)
(***************************************************************************)
BlockFile(d1, d2, d3) ==
    <<<<<<"L", "o", "c", "a", "t", "i", "o", "n", " ", "I", "D">>, NaN, NaN, MW1, MW1, MW1, MW1>>,
      <<<<"S", "a", "m", "p", "l", "e", " ", "N", "a", "m", "e">>, NaN, NaN, <<"M", "W", "-", "1", "-">> \o d1, <<"M", "W", "-", "1", "-">> \o d2, <<"M", "W", "-", "1", "-">> \o d3, <<"M", "W", "-", "1", "-", "0", "-", "2">>>>,
      <<NaN, NaN, NaN, NaN, NaN, NaN, NaN>>,
      <<<<"S", "a", "m", "p", "l", "e", " ", "D", "a", "t", "e">>, NaN, NaN, Day1, Day1, Day1, Day2>>,
      <<<<"A", "n", "a", "l", "y", "t", "e">>, EPA, DEC, NaN, NaN, NaN, NaN>>,
      <<<<"M", "e", "t", "a", "l", "s">>, NaN, NaN, NaN, NaN, NaN, NaN>>,
      <<Lead, <<"5", ".", "0">>, <<"6">>, <<"7", ".", "2">>, <<"<", " ", "5", ".", "0", " ", "U">>, <<"8", " ", "J">>, <<"4">>>>,
      <<Zinc, <<"2">>, NaN, <<"3">>, NaN, <<"1">>, NaN>>>>

\* depths whose text order is not their numeric order, depths with the same
\* leading number, and depths without a leading number
BlockFiles ==
    {BlockFile(<<"1", "2", "-", "1", "5">>, <<"3", "-", "6">>, <<"t", "o", "p">>),
     BlockFile(<<"3", ".", "5", "-", "6">>, <<"1", "0">>, <<"3", "-", "6", ".", "0">>),
     BlockFile(<<"t", "o", "p">>, <<"3", "-", "6">>, <<"b", "a", "s", "e">>)}

InitBlocks ==
    /\ parser = [NewParser EXCEPT !.has_sample_depth = TRUE]
    /\ exceedance_configs = <<>>
    /\ settings = DefaultSettings
    /\ session = NoSession
    /\ op = "init"
    /\ args \in BlockFiles
    /\ ret = <<>>
    /\ locals = <<>>

BlockCalls ==
    {[selected_locations |-> <<MW1>>,
      selected_analytes |-> selected_analytes,
      selected_dates |-> selected_dates,
      customization_service |-> customization_service] :
        selected_analytes \in {<<Lead>>, <<Zinc, Lead>>},
        selected_dates \in Selections(DateKeys(parser)),
        customization_service \in BOOLEAN}

NextBlocks ==
    \/ CallLoadFileOnParser
    \/ /\ op # "init"
       /\ \E call \in BlockCalls : CallGenerateTags(call)

SpecBlocks == InitBlocks /\ [][NextBlocks]_vars

\* the rows of a tag that open a block
BlockStarts(tag) ==
    {r \in 1..Len(GetAllRows(tag)) :
        GetAllRows(tag)[r].analyte_name = <<>>
        /\ GetAllRows(tag)[r].values[1] = <<"L", "o", "c", "a", "t", "i", "o", "n", " ", "I", "D", ":">>}

\* the date and the depth written in the block that opens at row r
BlockDate(tag, r) == GetAllRows(tag)[r + 1].values[2]

BlockDepth(tag, r) == GetAllRows(tag)[r + 2].values[2]

\* the block at row s comes directly after the block at row r
NextBlock(tag, r, s) ==
    r < s /\ \A q \in BlockStarts(tag) : ~(r < q /\ q < s)

\* the order the claim gives to the depths of one date
DepthInOrder(d1, d2) ==
    LET k1 == GetDepthSortKey(d1)
        k2 == GetDepthSortKey(d2)
    IN  /\ k1.inf => k2.inf
        /\ (~k1.inf /\ ~k2.inf) => ~NumGreater(k1.value, k2.value)

\* C22: the blocks of a tag of the depth layout are in ascending order of
\* date and, within a date, of the leading number of the depth; the depths
\* without a leading number come after the others of their date, whatever
\* the order of the selection keys.
C22_BlocksInDateThenDepthOrder ==
    (Generated /\ parser.has_sample_depth /\ "selected_dates" \in DOMAIN args) =>
        \A t \in 1..Len(ret) : \A r, s \in BlockStarts(ret[t]) :
            NextBlock(ret[t], r, s) =>
                \/ StrLess(BlockDate(ret[t], r), BlockDate(ret[t], s))
                \/ /\ BlockDate(ret[t], r) = BlockDate(ret[t], s)
                   /\ DepthInOrder(BlockDepth(ret[t], r), BlockDepth(ret[t], s))

\* the keys were selected as 12-15, top, 3-6 and the blocks are 3-6, 12-15, top
C22_Witness ==
    /\ Generated
    /\ parser.has_sample_depth
    /\ "selected_dates" \in DOMAIN args
    /\ Len(args.selected_dates) >= 2
    /\ args.selected_dates[1] = <<"D", "A", "T", "E", ":", "M", "W", "-", "1", ":", "2", "0", "2", "4", "-", "0", "1", "-", "1", "5", ":", "1", "2", "-", "1", "5">>
    /\ args.selected_dates[2] = <<"D", "A", "T", "E", ":", "M", "W", "-", "1", ":", "2", "0", "2", "4", "-", "0", "1", "-", "1", "5", ":", "3", "-", "6">>
    /\ Len(ret) = 1
    /\ \E r, s \in BlockStarts(ret[1]) :
          /\ NextBlock(ret[1], r, s)
          /\ BlockDepth(ret[1], r) = <<"3", "-", "6">>
          /\ BlockDepth(ret[1], s) = <<"1", "2", "-", "1", "5">>

\* a depth without a leading number is selected first and comes last
C22_WitnessUnparsed ==
    /\ Generated
    /\ parser.has_sample_depth
    /\ "selected_dates" \in DOMAIN args
    /\ Len(args.selected_dates) >= 2
    /\ args.selected_dates[1] = <<"D", "A", "T", "E", ":", "M", "W", "-", "1", ":", "2", "0", "2", "4", "-", "0", "1", "-", "1", "5", ":", "t", "o", "p">>
    /\ Len(ret) = 1
    /\ \E r, s \in BlockStarts(ret[1]) :
          /\ NextBlock(ret[1], r, s)
          /\ BlockDepth(ret[1], r) = <<"3", "-", "6">>
          /\ BlockDepth(ret[1], s) = <<"t", "o", "p">>

\* the selection keys that name the location of a tag
KeysOf(tag) ==
    {k \in 1..Len(args.selected_dates) : NamesLocation(args.selected_dates[k], tag.location_id)}

\* the rows of a block: the three label rows and a row for each analyte
BlockSize == 3 + Len(args.selected_analytes)

\* the rows from row r on are a block of the location: the location row, the
\* date row, the row of the sample interval and a row of two cells for each
\* selected analyte in order, written for one of the selection keys
IsBlock(tag, r) ==
    LET rows == GetAllRows(tag)
    IN  /\ rows[r].values = <<<<"L", "o", "c", "a", "t", "i", "o", "n", " ", "I", "D", ":">>, tag.location_id>>
        /\ Len(rows[r + 1].values) = 2
        /\ rows[r + 1].values[1] = <<"D", "a", "t", "e", " ", "S", "a", "m", "p", "l", "e", "d", ":">>
        /\ Len(rows[r + 2].values) = 2
        /\ rows[r + 2].values[1] = <<"S", "a", "m", "p", "l", "e", " ", "i", "n", "t", "e", "r", "v", "a", "l", ":">>
        /\ \A a \in 1..Len(args.selected_analytes) :
              /\ rows[r + 2 + a].analyte_name = args.selected_analytes[a]
              /\ Len(rows[r + 2 + a].values) = 2
        /\ \E k \in KeysOf(tag) :
              \E i \in 1..Len(parser.date_depth_combinations[tag.location_id]) :
                 LET pair == parser.date_depth_combinations[tag.location_id][i]
                 IN  /\ args.selected_dates[k] =
                            <<"D", "A", "T", "E", ":">> \o tag.location_id \o <<":">> \o pair[1]
                                \o <<":">> \o pair[2]
                     /\ rows[r + 1].values[2] =
                            FormattedDate(Self(args.customization_service), pair[1])
                     /\ rows[r + 2].values[2] = pair[2]

HeaderCells ==
    {NaN, <<" ", " ">>, <<"A", "W", "Q", "S">>, <<" ", "s", "a", "m", "p", "l", "e", " ", "d", "a", "t", "e", " ">>, <<"D", "a", "t", "e">>, MW1, <<"A", "W", "Q", "S", "-", "1">>}

\* the cells of row 0 drawn for the columns after column 0
LaterHeaderCells == {NaN, <<"D", "a", "t", "e">>, MW1, <<"A", "W", "Q", "S", "-", "1">>}

\* cells of row 3: missing, a date, and a blank text
DateCells == {NaN, Day1, <<" ">>}

ColumnGrid(h0, h1, h4, d0, d1, d4, whole) ==
    IF whole
    THEN <<<<h0, h1, NaN, NaN, h4>>,
           <<NaN, NaN, NaN, NaN, NaN>>,
           <<NaN, NaN, NaN, NaN, NaN>>,
           <<d0, d1, NaN, NaN, d4>>>>
    ELSE <<<<h0, h1, NaN, NaN, h4>>>>

ColumnGrids ==
    {ColumnGrid(h0, h1, h4, d0, d1, d4, TRUE) :
        h0 \in HeaderCells, h1 \in LaterHeaderCells, h4 \in LaterHeaderCells,
        d0 \in DateCells, d1 \in DateCells, d4 \in DateCells}
    \cup {ColumnGrid(h0, h1, h4, NaN, NaN, NaN, FALSE) :
        h0 \in HeaderCells, h1 \in LaterHeaderCells, h4 \in LaterHeaderCells}

\* parser = ExcelParser(); parser.data = grid
InitColumn ==
    /\ \E grid \in ColumnGrids : parser = [NewParser EXCEPT !.data = grid]
    /\ exceedance_configs = <<>>
    /\ settings = DefaultSettings
    /\ session = NoSession
    /\ op = "init"
    /\ args = <<>>
    /\ ret = <<>>
    /\ locals = <<>>

\* parser._find_first_location_column()
CallFindFirstLocationColumn ==
    /\ op = "init"
    /\ op' = "_find_first_location_column"
    /\ ret' = FindFirstLocationColumn(parser.data)
    /\ UNCHANGED <<parser, exceedance_configs, settings, session, args, locals>>

NextColumn == CallFindFirstLocationColumn

SpecColumn == InitColumn /\ [][NextColumn]_vars

\* the header labels that are never a location
HeaderVocabulary ==
    {<<"A", "W", "Q", "S">>, <<"A", "n", "a", "l", "y", "t", "e">>, <<"T", "h", "r", "e", "s", "h", "o", "l", "d">>, <<"S", "a", "m", "p", "l", "e", " ", "N", "a", "m", "e">>, <<"L", "o", "c", "a", "t", "i", "o", "n", " ", "I", "D">>,
     <<"L", "o", "c", "a", "t", "i", "o", "n", " ", "N", "a", "m", "e">>, <<"D", "a", "t", "e">>, <<"S", "a", "m", "p", "l", "e", " ", "D", "a", "t", "e">>, <<"P", "a", "r", "e", "n", "t", " ", "S", "a", "m", "p", "l", "e", " ", "N", "a", "m", "e">>}

\* the columns whose row-0 cell has text that is not a label of the
\* vocabulary, whatever its case, and whose row-3 cell is present
LocationColumns(data) ==
    {c \in 0..(NCols(data) - 1) :
        /\ NotNa(At(data, 0, c))
        /\ Strip(At(data, 0, c)) # <<>>
        /\ \A label \in HeaderVocabulary : Upper(Strip(At(data, 0, c))) # Upper(label)
        /\ NRows(data) > 3
        /\ NotNa(At(data, 3, c))}

\* C24: _find_first_location_column returns the smallest column whose row-0
\* cell is non-empty and not a label of the skip vocabulary in any case and
\* whose row-3 cell is non-empty, and 3 when there is no such column.
C24_FirstLocationColumn ==
    op = "_find_first_location_column" =>
        IF LocationColumns(parser.data) = {} THEN ret = 3
        ELSE /\ ret \in LocationColumns(parser.data)
             /\ \A c \in LocationColumns(parser.data) : ret <= c

\* column 0 is a label in lower case, column 1 a location without a date,
\* column 4 a location with a date
C24_Witness ==
    /\ op = "_find_first_location_column"
    /\ At(parser.data, 0, 0) = <<" ", "s", "a", "m", "p", "l", "e", " ", "d", "a", "t", "e", " ">>
    /\ NRows(parser.data) > 3
    /\ At(parser.data, 3, 0) = Day1
    /\ At(parser.data, 0, 1) = MW1
    /\ At(parser.data, 3, 1) = NaN
    /\ At(parser.data, 0, 4) = <<"A", "W", "Q", "S", "-", "1">>
    /\ At(parser.data, 3, 4) = Day1
    /\ ret = 4

\* the columns between column 0 and the first location column that hold a
\* number in the rows checked
NumericColumns(p) ==
    {c \in 1..(p.first_location_col - 1) : c < NCols(p.data) /\ HasNumericValues(p.data, c)}

\* the column of the i-th entry of standards_columns: the i-th of them
OwnColumn(p, i) ==
    CHOOSE c \in NumericColumns(p) : Cardinality({d \in NumericColumns(p) : d <= c}) = i

\* the number in a cell of a standards column, None when there is none
NumberIn(cell) == IF NotNa(cell) THEN ParseFloat(cell) ELSE NoFloat

\* C25: every entry of standards_columns keeps its own column index, also
\* when two columns have the same header name, and the value read for an
\* analyte under an entry is the one of the entry's own column.
C25_SameNameColumnsAreIndependent ==
    \A i \in 1..Len(parser.standards_columns) :
        i <= Cardinality(NumericColumns(parser)) =>
            /\ parser.standards_column_indices[parser.standards_columns[i]] = OwnColumn(parser, i)
            /\ \A row_idx \in AnalyteRows(parser) :
                  GetStandardsValue(parser, Strip(At(parser.data, row_idx, 0)),
                                    parser.standards_columns[i])
                      = NumberIn(At(parser.data, row_idx, OwnColumn(parser, i)))

\* the same for the files whose standards columns have different names
C25_DistinctNamesAreIndependent ==
    (\A i, j \in 1..Len(parser.standards_columns) :
        parser.standards_columns[i] = parser.standards_columns[j] => i = j)
    => C25_SameNameColumnsAreIndependent

(***************************************************************************)
(* The export flow of a session with a loaded file.  Every change of a     *)
(* widget reruns the script, which ends with render_export_section: an     *)
(* action is the change followed by that render.  The session holds the    *)
(* selection, the cached workbook and the hash of the selection it was     *)
(* made for; the workbook is modelled by the tags written into it, the md5 *)
(* digest by the list of texts it digests.                                 *)
(***************************************************************************)
\* st.session_state after the upload of the file: nothing selected, nothing cached
ExportSession ==
    [file_loaded |-> TRUE, parser_set |-> TRUE,
     selected_locations |-> <<>>, selected_analytes |-> <<>>, selected_dates |-> <<>>,
     export_excel_bytes |-> None, export_tag_count |-> 0, last_selection_hash |-> None]

\* no download button
NoDownload == [offered |-> FALSE, data |-> None]

InitExport ==
    \E loads \in {TagLoads} : \E file \in TagFiles :
        /\ parser = loads[file][FALSE]
        /\ exceedance_configs = InitializeExceedanceConfigs(<<>>, loads[file][FALSE])
        /\ settings = DefaultSettings
        /\ session = ExportSession
        /\ op = "init"
        /\ args = <<>>
        /\ ret = NoDownload
        /\ locals = <<>>

\* _calculate_selection_hash: the components that are digested
CalculateSelectionHash(s, set) ==
    <<SortStrings(s.selected_locations), SortStrings(s.selected_analytes),
      SortStrings(s.selected_dates), set.analyte_mappings, set.date_format,
      set.date_header_text, set.show_non_detect_as_nd>>

\* lines 98-150: the session after the tags were generated and exported
StoreExport(s, generated, selection_hash) ==
    IF generated.tags = <<>>
    THEN [session |-> [s EXCEPT !.export_excel_bytes = None, !.export_tag_count = 0,
                                !.last_selection_hash = selection_hash],
          configs |-> generated.configs]
    ELSE [session |-> [s EXCEPT !.export_excel_bytes = generated.tags,
                                !.export_tag_count = Len(generated.tags),
                                !.last_selection_hash = selection_hash],
          configs |-> generated.configs]

\* lines 74-96: the session and the configurations after the render
ExportRendered(p, s, set, configs) ==
    IF /\ s.file_loaded /\ s.parser_set
       /\ s.selected_locations # <<>> /\ s.selected_analytes # <<>> /\ s.selected_dates # <<>>
    THEN IF \/ s.export_excel_bytes = None
            \/ s.last_selection_hash # CalculateSelectionHash(s, set)
         THEN StoreExport(s,
                  GenerateTags([parser |-> p, customization_service |-> TRUE, settings |-> set],
                               configs, s.selected_locations, s.selected_analytes,
                               s.selected_dates),
                  CalculateSelectionHash(s, set))
         ELSE [session |-> s, configs |-> configs]
    ELSE [session |-> s, configs |-> configs]

\* lines 163-173: the download button of the render
DownloadOf(s) ==
    IF /\ s.file_loaded /\ s.parser_set
       /\ s.selected_locations # <<>> /\ s.selected_analytes # <<>> /\ s.selected_dates # <<>>
       /\ s.export_excel_bytes # None
    THEN [offered |-> TRUE, data |-> s.export_excel_bytes]
    ELSE NoDownload

\* render_export_section on the session, settings and configurations that
\* the change of a widget left
RenderExportSection(s, set, configs) ==
    \E out \in {ExportRendered(parser, s, set, configs)} :
        /\ session' = out.session
        /\ exceedance_configs' = out.configs
        /\ settings' = set
        /\ ret' = DownloadOf(out.session)
        /\ locals' = [configs |-> configs]
        /\ op' = "render_export_section"
        /\ UNCHANGED parser

\* the selected keys whose location is selected, as the date selector lists them
KeysOfLocations(keys, locations) ==
    SortedStrings({k \in keys : \E i \in 1..Len(locations) : NamesLocation(k, locations[i])})

\* the multiselect: a location is added at the end of the selection
AddLocation(location_id) ==
    /\ location_id \in {parser.locations[i] : i \in 1..Len(parser.locations)}
    /\ \A i \in 1..Len(session.selected_locations) : session.selected_locations[i] # location_id
    /\ args' = <<"add_location", location_id>>
    /\ RenderExportSection(
           [session EXCEPT !.selected_locations = Append(@, location_id)],
           settings, exceedance_configs)

\* the multiselect: a location is removed, and its date checkboxes are cleared
RemoveLocation(location_id) ==
    /\ \E i \in 1..Len(session.selected_locations) : session.selected_locations[i] = location_id
    /\ args' = <<"remove_location", location_id>>
    /\ \E remaining \in {SelectSeq(session.selected_locations, LAMBDA l : l # location_id)} :
          RenderExportSection(
              [session EXCEPT !.selected_locations = remaining,
                              !.selected_dates =
                                  KeysOfLocations({session.selected_dates[k] :
                                                      k \in 1..Len(session.selected_dates)},
                                                  remaining)],
              settings, exceedance_configs)

\* a date checkbox of a selected location is ticked or cleared
ToggleDate(key) ==
    /\ key \in DateKeys(parser)
    /\ \E i \in 1..Len(session.selected_locations) :
          NamesLocation(key, session.selected_locations[i])
    /\ args' = <<"toggle_date", key>>
    /\ \E before \in {{session.selected_dates[k] : k \in 1..Len(session.selected_dates)}} :
          RenderExportSection(
              [session EXCEPT !.selected_dates =
                  KeysOfLocations(IF key \in before THEN before \ {key} ELSE before \cup {key},
                                  session.selected_locations)],
              settings, exceedance_configs)

\* the button that ticks every date of the selected locations
SelectAllDates ==
    /\ session.selected_locations # <<>>
    /\ args' = <<"select_all_dates">>
    /\ RenderExportSection(
           [session EXCEPT !.selected_dates =
               KeysOfLocations(DateKeys(parser), session.selected_locations)],
           settings, exceedance_configs)

\* an analyte checkbox: the selection lists the ticked analytes in file order
ToggleAnalyte(analyte_name) ==
    /\ args' = <<"toggle_analyte", analyte_name>>
    /\ \E before \in {{session.selected_analytes[k] : k \in 1..Len(session.selected_analytes)}} :
          \E after \in {IF analyte_name \in before THEN before \ {analyte_name}
                        ELSE before \cup {analyte_name}} :
             RenderExportSection(
                 [session EXCEPT !.selected_analytes =
                     SelectSeq([i \in 1..Len(parser.analytes) |-> parser.analytes[i].name],
                               LAMBDA a : a \in after)],
                 settings, exceedance_configs)

\* the enable checkbox of the idx-th standards column of the sidebar
ToggleStandardsColumn(idx) ==
    /\ idx \in 1..Len(parser.standards_columns)
    /\ args' = <<"standards_enabled", idx>>
    /\ RenderExportSection(
           session, settings,
           SetStandardsEnabled(exceedance_configs, parser.standards_columns[idx],
               ~ConfigOf(exceedance_configs, parser.standards_columns[idx]).enabled))

NextExport ==
    \/ \E location_id \in {MW1, MW2} : AddLocation(location_id)
    \/ \E location_id \in {MW1, MW2} : RemoveLocation(location_id)
    \/ \E key \in DateKeys(parser) : ToggleDate(key)
    \/ SelectAllDates
    \/ \E analyte_name \in {Zinc} : ToggleAnalyte(analyte_name)
    \/ \E idx \in {1} : ToggleStandardsColumn(idx)

SpecExport == InitExport /\ [][NextExport]_vars

\* the workbook made now from the selection of the session and the
\* customization the render found
FreshExport ==
    GenerateTags([parser |-> parser, customization_service |-> TRUE, settings |-> settings],
                 locals.configs, session.selected_locations, session.selected_analytes,
                 session.selected_dates).tags

\* C26: whenever the export section offers cached bytes for download, they
\* are the export of the current selection and customization.
C26_DownloadIsCurrent ==
    (op = "render_export_section" /\ ret.offered) => ret.data = FreshExport

(***************************************************************************)
(* Selection keys: grids of one location whose ID, date text or depth may  *)
(* hold a colon are loaded, and tags are generated for the keys the date   *)
(* selector builds from the parsed dates and depths.                       *)
(***************************************************************************)
KeyFile(location_id, date, depth) ==
    <<<<<<"L", "o", "c", "a", "t", "i", "o", "n", " ", "I", "D">>, NaN, NaN, location_id, location_id>>,
      <<<<"S", "a", "m", "p", "l", "e", " ", "N", "a", "m", "e">>, NaN, NaN, location_id \o <<"-">> \o depth, location_id \o <<"-", "6", "-", "8">>>>,
      <<NaN, NaN, NaN, NaN, NaN>>,
      <<<<"S", "a", "m", "p", "l", "e", " ", "D", "a", "t", "e">>, NaN, NaN, date, Day2>>,
      <<<<"A", "n", "a", "l", "y", "t", "e">>, EPA, NaN, NaN, NaN>>,
      <<<<"M", "e", "t", "a", "l", "s">>, NaN, NaN, NaN, NaN>>,
      <<Lead, <<"5", ".", "0">>, NaN, <<"7", ".", "2">>, <<"4">>>>>>

\* location IDs, dates kept as text and depths, without and with a colon
KeyLocationIds == {MW1, <<"M", "W", ":", "1">>}

KeyDates == {Day1, <<"1", "/", "1", "5", "/", "2", "0", "2", "4", " ", "1", "0", ":", "3", "0">>}

KeyDepths == {<<"2", "-", "4">>, <<"2", ":", "4">>}

KeyFiles ==
    {KeyFile(location_id, date, depth) :
        location_id \in KeyLocationIds, date \in KeyDates, depth \in KeyDepths}

InitKeys ==
    /\ \E depth \in BOOLEAN : parser = [NewParser EXCEPT !.has_sample_depth = depth]
    /\ exceedance_configs = <<>>
    /\ settings = DefaultSettings
    /\ session = NoSession
    /\ op = "init"
    /\ args \in KeyFiles
    /\ ret = <<>>
    /\ locals = <<>>

\* the selected locations are those of the file
KeyCalls ==
    {[selected_locations |-> parser.locations,
      selected_analytes |-> <<Lead>>,
      selected_dates |-> selected_dates,
      customization_service |-> customization_service] :
        selected_dates \in Selections(DateKeys(parser)),
        customization_service \in BOOLEAN}

NextKeys ==
    \/ CallLoadFileOnParser
    \/ /\ op # "init"
       /\ \E call \in KeyCalls : CallGenerateTags(call)

SpecKeys == InitKeys /\ [][NextKeys]_vars

\* the (location, date, depth) triples the parser produced; depth is None
\* when the file is not depth-qualified
ParsedTriples(p) ==
    IF p.has_sample_depth
    THEN UNION {{<<loc, p.date_depth_combinations[loc][i][1], p.date_depth_combinations[loc][i][2]>> :
                   i \in 1..Len(p.date_depth_combinations[loc])} :
                loc \in DOMAIN p.date_depth_combinations}
    ELSE UNION {{<<loc, p.location_dates[loc][i], None>> : i \in 1..Len(p.location_dates[loc])} :
                loc \in DOMAIN p.location_dates}

\* the key of a triple
KeyOfTriple(triple) ==
    <<"D", "A", "T", "E", ":">> \o triple[1] \o <<":">> \o triple[2]
        \o (IF triple[3] # None THEN <<":">> \o triple[3] ELSE <<>>)

\* the (date, depth) pairs under which a tag looks its results up
LookedUp(tag) ==
    IF parser.has_sample_depth
    THEN {DateDepthPairs(tag.dates)[i] : i \in 1..Len(DateDepthPairs(tag.dates))}
    ELSE {<<tag.dates[i], None>> : i \in 1..Len(tag.dates)}

\* the selected key is decoded to the triple it was built from
Decoded(triple) ==
    \E t \in 1..Len(ret) :
        /\ ret[t].location_id = triple[1]
        /\ <<triple[2], triple[3]>> \in LookedUp(ret[t])

\* C27: the key the date selector builds for a selected location and a date
\* and depth of the parser is decoded by generate_tags to that location,
\* date and depth.
C27_SelectionKeyRoundTrip ==
    (Generated /\ "selected_dates" \in DOMAIN args) =>
        \A triple \in ParsedTriples(parser) :
            (/\ \E i \in 1..Len(args.selected_locations) : args.selected_locations[i] = triple[1]
             /\ \E k \in 1..Len(args.selected_dates) : args.selected_dates[k] = KeyOfTriple(triple))
            => Decoded(triple)

\* a text without a colon
Plain(text) == \A i \in 1..Len(text) : text[i] # ":"

\* the same for the locations, dates and depths without a colon
C27_PlainKeyRoundTrip ==
    (Generated /\ "selected_dates" \in DOMAIN args) =>
        \A triple \in ParsedTriples(parser) :
            (/\ Plain(triple[1]) /\ Plain(triple[2]) /\ Plain(triple[3])
             /\ \E i \in 1..Len(args.selected_locations) : args.selected_locations[i] = triple[1]
             /\ \E k \in 1..Len(args.selected_dates) : args.selected_dates[k] = KeyOfTriple(triple))
            => Decoded(triple)


(***************************************************************************)
(* load_file called more than once on one ExcelParser                      *)
(***************************************************************************)
\* a file of one location column and the analyte Lead
ReloadFile(location_id, date, value) ==
    <<<<<<"L", "o", "c", "a", "t", "i", "o", "n", " ", "I", "D">>, NaN, NaN, location_id>>,
      <<NaN, NaN, NaN, NaN>>,
      <<NaN, NaN, NaN, NaN>>,
      <<<<"S", "a", "m", "p", "l", "e", " ", "D", "a", "t", "e">>, NaN, NaN, date>>,
      <<<<"A", "n", "a", "l", "y", "t", "e">>, EPA, NaN, NaN>>,
      <<<<"M", "e", "t", "a", "l", "s">>, NaN, NaN, NaN>>,
      <<Lead, <<"5", ".", "0">>, NaN, value>>>>

ReloadFiles ==
    {ReloadFile(location_id, date, value) :
        location_id \in {MW1, MW2}, date \in {Day1, Day2}, value \in {NaN, <<"7", ".", "2">>, <<"4">>}}
    \cup {Unreadable}

\* the most calls of load_file on the one object
MaxLoads == 2

\* parser = ExcelParser(); parser.has_sample_depth = depth
InitReload ==
    /\ \E depth \in BOOLEAN : parser = [NewParser EXCEPT !.has_sample_depth = depth]
    /\ exceedance_configs = <<>>
    /\ settings = DefaultSettings
    /\ session = NoSession
    /\ op = "init"
    /\ args = <<>>
    /\ ret = <<>>
    /\ locals = [loads |-> 0]

\* parser.load_file(file), on the object as the calls before left it
CallLoadFileAgain(file) ==
    /\ locals.loads < MaxLoads
    /\ parser' = LoadFile(parser, file)
    /\ op' = "load_file"
    /\ args' = file
    /\ ret' = ~LoadFileRaises(parser, file)
    /\ locals' = [loads |-> locals.loads + 1]
    /\ UNCHANGED <<exceedance_configs, session, settings>>

NextReload == \E file \in ReloadFiles : CallLoadFileAgain(file)

SpecReload == InitReload /\ [][NextReload]_vars

\* the object a new ExcelParser of the same depth setting is after loading the
\* file of the last call
LoadedAlone == LoadFile([NewParser EXCEPT !.has_sample_depth = parser.has_sample_depth], args)

\* C28: after a successful load_file that is not the first on the object,
\* result_data holds the keys and the values of the grid loaded last and
\* nothing of the loads before
C28_ReloadReplacesResults ==
    (op = "load_file" /\ locals.loads >= 2 /\ ret = TRUE) =>
        parser.result_data = LoadedAlone.result_data

\* what load_file resets: every field but result_data is that of the last grid
C28_ReloadReplacesOtherFields ==
    (op = "load_file" /\ locals.loads >= 2 /\ ret = TRUE) =>
        [parser EXCEPT !.result_data = EmptyDict] = [LoadedAlone EXCEPT !.result_data = EmptyDict]


(***************************************************************************)
(* _detect_standards_columns on sheets whose numbers lie in row 5, in row  *)
(* 19 or in row 20                                                         *)
(***************************************************************************)
\* the cell of a standards column: the number in row number_row, the text ND
\* in row 5 when the sheet has it
StandardsColumnCell(row_idx, number_row, nd) ==
    IF row_idx = number_row THEN <<"5", ".", "0">>
    ELSE IF row_idx = FirstAnalyteRow /\ nd THEN <<"N", "D">>
    ELSE NaN

\* rows 0 .. StandardsCheckEndRow of a sheet with the standards columns 1 and
\* 2 and the location column 3; second_location makes column 2 a location
\* column
StandardsRow(row_idx, a, t1, h1, h2, n1, nd1, n2, second_location) ==
    IF row_idx = 0
    THEN <<<<"L", "o", "c", "a", "t", "i", "o", "n", " ", "I", "D">>, t1, IF second_location THEN MW2 ELSE NaN, MW1>>
    ELSE IF row_idx = DateRow
    THEN <<<<"S", "a", "m", "p", "l", "e", " ", "D", "a", "t", "e">>, NaN, IF second_location THEN Day2 ELSE NaN, Day1>>
    ELSE IF row_idx = AnalyteHeaderRow
    THEN <<a, h1, h2, NaN>>
    ELSE IF row_idx >= FirstAnalyteRow
    THEN <<IF row_idx = FirstAnalyteRow THEN Lead ELSE NaN,
           StandardsColumnCell(row_idx, n1, nd1),
           StandardsColumnCell(row_idx, n2, FALSE),
           IF row_idx = FirstAnalyteRow THEN <<"7">> ELSE NaN>>
    ELSE <<NaN, NaN, NaN, NaN>>

StandardsGrid(rows, a, t1, h1, h2, n1, nd1, n2, second_location) ==
    [r \in 1..rows |-> StandardsRow(r - 1, a, t1, h1, h2, n1, nd1, n2, second_location)]

\* the rows a number is put in: none, the first and the last row searched, and
\* the row after
NumberRows == {0, FirstAnalyteRow, StandardsCheckEndRow - 1, StandardsCheckEndRow}

StandardsGrids ==
    {StandardsGrid(rows, a, t1, h1, h2, n1, nd1, n2, second_location) :
        rows \in {FirstAnalyteRow + 1, StandardsCheckEndRow + 1},
        a \in {<<"A", "n", "a", "l", "y", "t", "e">>, <<"P", "a", "r", "a", "m", "e", "t", "e", "r">>, NaN},
        t1 \in {NaN, <<" ", "N", "Y", "S", " ">>},
        h1 \in {NaN, <<" ", "E", "P", "A", " ">>, <<" ", " ">>},
        h2 \in {NaN, <<"D", "E", "C">>},
        n1 \in NumberRows, nd1 \in BOOLEAN,
        n2 \in NumberRows \ {FirstAnalyteRow},
        second_location \in BOOLEAN}

\* load_file up to the call of _parse_categories_and_analytes: the sheet is
\* read and the first location column found
InitStandards ==
    /\ \E data \in StandardsGrids :
          parser = [NewParser EXCEPT !.data = data,
                                     !.first_location_col = FindFirstLocationColumn(data)]
    /\ exceedance_configs = <<>>
    /\ settings = DefaultSettings
    /\ session = NoSession
    /\ op = "init"
    /\ args = <<>>
    /\ ret = <<>>
    /\ locals = <<>>

\* self._detect_standards_columns()
CallDetectStandardsColumns ==
    /\ op = "init"
    /\ parser' = DetectStandardsColumns(parser)
    /\ op' = "_detect_standards_columns"
    /\ UNCHANGED <<exceedance_configs, session, settings, args, ret, locals>>

NextStandards == CallDetectStandardsColumns

SpecStandards == InitStandards /\ [][NextStandards]_vars

\* the columns left of the first location column with a number in rows 5 to 19
NumericStandardsColumns(p) ==
    {c \in 1..(p.first_location_col - 1) :
        \E r \in 5..19 :
            /\ r < NRows(p.data)
            /\ NotNa(At(p.data, r, c))
            /\ ParseFloat(At(p.data, r, c)).ok}

\* the header cell of a column: row 4 when its first cell contains Analyte,
\* row 0 otherwise
HeaderCellOf(p, c) ==
    IF NotNa(At(p.data, 4, 0)) /\ Find(At(p.data, 4, 0), <<"A", "n", "a", "l", "y", "t", "e">>) # 0 - 1
    THEN At(p.data, 4, c)
    ELSE At(p.data, 0, c)

NameOfColumn(p, c) ==
    IF HeaderCellOf(p, c) = NaN \/ Strip(HeaderCellOf(p, c)) = <<>>
    THEN <<"S", "t", "a", "n", "d", "a", "r", "d", " ">> \o IntToStr(c)
    ELSE Strip(HeaderCellOf(p, c))

C29_WitnessGeneratedName ==
    /\ op = "_detect_standards_columns"
    /\ At(parser.data, 4, 0) = <<"A", "n", "a", "l", "y", "t", "e">>
    /\ parser.standards_columns = <<<<"S", "t", "a", "n", "d", "a", "r", "d", " ", "1">>, <<"D", "E", "C">>>>


(***************************************************************************)
(* The column layout: the tags generate_tags makes of a file loaded        *)
(* without sample depth                                                    *)
(***************************************************************************)
\* the dates of the selection keys that name the location
KeyDatesOf(location_id) ==
    {SubSeq(args.selected_dates[k], Len(location_id) + 7, Len(args.selected_dates[k])) :
        k \in {i \in 1..Len(args.selected_dates) :
                  NamesLocation(args.selected_dates[i], location_id)}}

\* the number of selection keys that name the location
KeyCountOf(location_id) ==
    Cardinality({i \in 1..Len(args.selected_dates) :
                    NamesLocation(args.selected_dates[i], location_id)})

\* the i-th of these dates in ascending order
KeyDateAt(location_id, i) ==
    CHOOSE date \in KeyDatesOf(location_id) :
        Cardinality({other \in KeyDatesOf(location_id) : StrLess(other, date)}) = i - 1

\* the text the tag shows for the resolved result of a location, date and
\* analyte: the result as process_non_detect_value leaves it, '' when there
\* is none
ShownResult(location_id, date, analyte_name) ==
    LET result == GetResultValue(parser, location_id, date, analyte_name, None)
    IN  IF ~result.found THEN <<>>
        ELSE IF args.customization_service THEN ProcessNonDetectValue(settings, result.value)
        ELSE result.value

\* C30: in the layout without sample depth, the second row of a tag holds
\* the configured label and then the dates of the location's selection keys
\* in ascending order, whatever the order of the keys; each analyte row has
\* 1 + (number of the location's keys) cells, and its cell in column i is the
\* resolved result for the date in column i of the second row
C30_ColumnLayout ==
    (Generated /\ "selected_dates" \in DOMAIN args /\ ~parser.has_sample_depth) =>
        \A t \in 1..Len(ret) :
            LET location_id == ret[t].location_id
                rows == GetAllRows(ret[t])
                n == KeyCountOf(location_id)
            IN  /\ Len(rows) = 2 + Len(args.selected_analytes)
                /\ rows[2].values[1] =
                       (IF args.customization_service THEN settings.date_header_text
                        ELSE <<"A", "n", "a", "l", "y", "t", "e">>)
                /\ Len(rows[2].values) = 1 + n
                /\ Cardinality(KeyDatesOf(location_id)) = n
                /\ \A i \in 1..n :
                      rows[2].values[i + 1] =
                          FormattedDate(Self(args.customization_service),
                                        KeyDateAt(location_id, i))
                /\ \A a \in 1..Len(args.selected_analytes) :
                      /\ Len(rows[2 + a].values) = 1 + n
                      /\ \A i \in 1..n :
                            rows[2 + a].values[i + 1] =
                                ShownResult(location_id, KeyDateAt(location_id, i),
                                            args.selected_analytes[a])

\* the key of the later date of MW-1 is selected before the key of the
\* earlier date, and the tag shows the earlier date first
C30_Witness ==
    /\ Generated
    /\ "selected_dates" \in DOMAIN args
    /\ ~parser.has_sample_depth
    /\ Len(args.selected_dates) = 2
    /\ NamesLocation(args.selected_dates[1], MW1)
    /\ NamesLocation(args.selected_dates[2], MW1)
    /\ StrLess(args.selected_dates[2], args.selected_dates[1])
    /\ Len(ret) = 1
    /\ Len(GetAllRows(ret[1])[2].values) = 3
    /\ StrLess(ret[1].dates[1], ret[1].dates[2])
    /\ GetAllRows(ret[1])[3].values[2] # <<>>
    /\ GetAllRows(ret[1])[3].values[2] # GetAllRows(ret[1])[3].values[3]

====
